---- MODULE Spec2Model ----
(***************************************************************************)
(* Task pipelines of the Flooky backend (bill, contract, financial, CV,    *)
(* video): text extraction, completion request with retry on overload,     *)
(* JSON extraction from the reply, normalization and fallback.             *)
(*                                                                         *)
(* Conventions.                                                            *)
(*  - A Python string that is only built, searched and returned (exception *)
(*    messages, reply texts) is a sequence of fragments; the word the code *)
(*    searches for ("overloaded") is always a fragment of its own.         *)
(*  - A JSON / Python value is a tagged record: k is its type.             *)
(*    Numbers are kept in hundredths (c), with isint telling int from      *)
(*    float.                                                               *)
(*  - A Python call that may raise yields Ok(v) or Raise(exc, msg).        *)
(***************************************************************************)
EXTENDS Integers, Sequences, FiniteSets, TLC

\* ------------------------------------------------------------------------
\* Python values
\* ------------------------------------------------------------------------
JNull == [k |-> "null"]

JInt(n) == [k |-> "num", isint |-> TRUE, c |-> n * 100]

JFloat(c) == [k |-> "num", isint |-> FALSE, c |-> c]

JStr(s) == [k |-> "str", s |-> s]

JBool(b) == [k |-> "bool", b |-> b]

JList(l) == [k |-> "list", l |-> l]

JObj(o) == [k |-> "obj", o |-> o]

EmptyDict == JObj(<<>>)

EmptyList == JList(<<>>)

Ok(v) == [ok |-> TRUE, v |-> v]

Raise(exc, msg) == [ok |-> FALSE, exc |-> exc, msg |-> msg]

\* type(v).__name__, as it appears in Python's error messages
TypeName(v) ==
  CASE v.k = "null" -> "NoneType"
    [] v.k = "num" -> IF v.isint THEN "int" ELSE "float"
    [] v.k = "str" -> "str"
    [] v.k = "bool" -> "bool"
    [] v.k = "list" -> "list"
    [] v.k = "obj" -> "dict"

\* str(v): a string is itself; any other value is rendered (r keeps the
\* rendered value, so the rendering of 5 differs from the string "x")
PyStr(v) == IF v.k = "str" THEN v ELSE [k |-> "str", r |-> v]

\* d.get(key, default): only dicts have .get
PyGet(d, key, default) ==
  IF d.k = "obj"
    THEN Ok(IF key \in DOMAIN d.o THEN d.o[key] ELSE default)
    ELSE Raise("AttributeError",
               <<"'", TypeName(d), "' object has no attribute 'get'">>)

\* the strings of the model that int() accepts, with their values
IntLiteral == [s \in {"85", "150"} |-> IF s = "85" THEN 85 ELSE 150]

\* the strings of the model that float() accepts, in hundredths
FloatLiteral ==
  [s \in {"85", "150", "10.5"} |->
     IF s = "85" THEN 8500 ELSE IF s = "150" THEN 15000 ELSE 1050]

\* int(v)
PyInt(v) ==
  CASE v.k = "num" ->
         Ok(IF v.c >= 0 THEN v.c \div 100 ELSE -((-v.c) \div 100))
    [] v.k = "bool" -> Ok(IF v.b THEN 1 ELSE 0)
    [] v.k = "str" ->
         IF v.s \in DOMAIN IntLiteral
           THEN Ok(IntLiteral[v.s])
           ELSE Raise("ValueError",
                      <<"invalid literal for int() with base 10: '", v.s, "'">>)
    [] OTHER ->
         Raise("TypeError",
               <<"int() argument must be a string, a bytes-like object or a real number, not '",
                 TypeName(v), "'">>)

\* float(v), in hundredths
PyFloat(v) ==
  CASE v.k = "num" -> Ok(v.c)
    [] v.k = "bool" -> Ok(IF v.b THEN 100 ELSE 0)
    [] v.k = "str" ->
         IF v.s \in DOMAIN FloatLiteral
           THEN Ok(FloatLiteral[v.s])
           ELSE Raise("ValueError",
                      <<"could not convert string to float: '", v.s, "'">>)
    [] OTHER ->
         Raise("TypeError",
               <<"float() argument must be a string or a real number, not '",
                 TypeName(v), "'">>)

Min(a, b) == IF a <= b THEN a ELSE b

Max(a, b) == IF a >= b THEN a ELSE b

\* s.lower() on one fragment, for the fragments of the model that hold an
\* upper-case letter and are compared or searched after lower()
LowerFrag(f) ==
  CASE f \in {"Overloaded", "OVERLOADED"} -> "overloaded"
    [] f \in {"Spanish", "SPANISH"} -> "spanish"
    [] f = "Español" -> "español"
    [] f = "English" -> "english"
    [] OTHER -> f

\* s.lower()
Lower(s) == [i \in 1..Len(s) |-> LowerFrag(s[i])]

\* sub in s
Contains(s, sub) == \E i \in 1..Len(s) : s[i] = sub

IsSpace(f) == f \in {" ", "\n", "\t"}

\* s.strip()
RECURSIVE Strip(_)
Strip(s) ==
  IF s = <<>> THEN s
  ELSE IF IsSpace(Head(s)) THEN Strip(Tail(s))
  ELSE IF IsSpace(s[Len(s)]) THEN Strip(SubSeq(s, 1, Len(s) - 1))
  ELSE s

\* ------------------------------------------------------------------------
\* Reply texts and JSON extraction
\* ------------------------------------------------------------------------
\* A reply text is a sequence of segments: prose without braces, a lone
\* brace, or the serialization of one well-formed JSON object.
Prose(s) == [t |-> "prose", s |-> s]

LBrace == [t |-> "{"]

RBrace == [t |-> "}"]

ObjText(o) == [t |-> "json", o |-> o]

HasOpen(seg) == seg.t \in {"{", "json"}

HasClose(seg) == seg.t \in {"}", "json"}

\* JsonMatch with a lazy quantifier: the span ends at the first '}'
JsonMatchFirstClose(text) ==
  LET opens == {i \in 1..Len(text) : HasOpen(text[i])}
      closes == {i \in 1..Len(text) : HasClose(text[i])}
  IN IF opens = {} \/ closes = {}
       THEN <<>>
       ELSE LET first == CHOOSE i \in opens : \A j \in opens : i <= j
                last == CHOOSE i \in closes : \A j \in closes : i <= j
            IN IF first < last \/ (first = last /\ text[first].t = "json")
                 THEN SubSeq(text, first, last)
                 ELSE <<>>

\* re.search(r'\{.*\}', text, re.DOTALL): the leftmost '{' that a '}'
\* follows, through the last '}' of the text. <<>> stands for no match.
JsonMatch(text) ==
  LET opens == {i \in 1..Len(text) : HasOpen(text[i])}
      closes == {i \in 1..Len(text) : HasClose(text[i])}
  IN IF opens = {} \/ closes = {}
       THEN <<>>
       ELSE LET first == CHOOSE i \in opens : \A j \in opens : i <= j
                last == CHOOSE i \in closes : \A j \in closes : i >= j
            IN IF first < last \/ (first = last /\ text[first].t = "json")
                 THEN SubSeq(text, first, last)
                 ELSE <<>>

\* json.loads that is content with the first object of the span, as
\* JSONDecoder.raw_decode is
JsonLoadsFirstObject(span) ==
  IF span # <<>> /\ span[1].t = "json"
    THEN Ok(span[1].o)
    ELSE IF span = <<LBrace, RBrace>>
      THEN Ok(EmptyDict)
      ELSE Raise("JSONDecodeError", <<"Expecting property name enclosed in double quotes">>)

\* json.loads(json_str) on a matched span: the span parses exactly when it
\* is one object's serialization, or the two braces of "{}".
JsonLoads(span) ==
  IF Len(span) = 1 /\ span[1].t = "json"
    THEN Ok(span[1].o)
    ELSE IF span = <<LBrace, RBrace>>
      THEN Ok(EmptyDict)
      ELSE Raise("JSONDecodeError", <<"Expecting property name enclosed in double quotes">>)

\* the text the loop over resp_json["content"] builds
JoinText(content) ==
  LET RECURSIVE join(_)
      join(i) == IF i > Len(content) THEN <<>>
                 ELSE (IF content[i].type = "text" THEN content[i].text ELSE <<>>)
                      \o join(i + 1)
  IN join(1)

\* ------------------------------------------------------------------------
\* Contract normalizer and fallback
\* ------------------------------------------------------------------------
\* Clamp without the lower bound
ClampUpperOnly(n) == Min(100, n)

\* min(100, max(0, n))
Clamp(n) == Min(100, Max(0, n))

ContractValidate(data) ==
  LET parties == PyGet(data, "parties", EmptyDict).v
      risk == PyGet(data, "risk_assessment", EmptyDict).v
      party1 == PyGet(parties, "party1", JStr("Unknown"))
      party2 == PyGet(parties, "party2", JStr("Unknown"))
      relationship == PyGet(parties, "relationship", JStr("Not specified"))
      safety == PyGet(risk, "safety_percentage", JInt(50))
      safetyInt == PyInt(safety.v)
  IN IF ~party1.ok THEN party1
     ELSE IF ~safety.ok THEN safety
     ELSE IF ~safetyInt.ok THEN safetyInt
     ELSE Ok([
       contract_title |-> PyStr(PyGet(data, "contract_title", JStr("Unknown Contract")).v),
       duration |-> PyStr(PyGet(data, "duration", JStr("Not specified")).v),
       parties |-> [party1 |-> PyStr(party1.v),
                    party2 |-> PyStr(party2.v),
                    relationship |-> PyStr(relationship.v)],
       contract_details |-> PyStr(PyGet(data, "contract_details", JStr("No details available")).v),
       risk_assessment |-> [
         safety_percentage |-> Clamp(safetyInt.v),
         risk_level |-> PyStr(PyGet(risk, "risk_level", JStr("Medium")).v),
         scam_likelihood |-> PyStr(PyGet(risk, "scam_likelihood", JStr("Unknown")).v),
         explanation |-> PyStr(PyGet(risk, "explanation", JStr("No risk assessment available")).v)],
       contract_explanation |-> PyStr(PyGet(data, "contract_explanation", JStr("No explanation available")).v),
       legal_terms_simplified |-> PyGet(data, "legal_terms_simplified", EmptyList).v,
       risky_parts |-> PyGet(data, "risky_parts", EmptyList).v,
       missing_clauses |-> PyGet(data, "missing_clauses", EmptyList).v,
       recommended_changes |-> PyGet(data, "recommended_changes", EmptyList).v,
       final_recommendations |-> PyStr(PyGet(data, "final_recommendations", JStr("No recommendations available")).v)])

ContractFallback(response_text) ==
  [contract_title |-> JStr("Document Analysis"),
   duration |-> JStr("Not specified"),
   parties |-> [party1 |-> JStr("Unknown"),
                party2 |-> JStr("Unknown"),
                relationship |-> JStr("Not specified")],
   contract_details |-> JStr("Could not extract specific contract details."),
   risk_assessment |-> [
     safety_percentage |-> 50,
     risk_level |-> JStr("Unknown"),
     scam_likelihood |-> JStr("Unknown"),
     explanation |-> JStr("Automatic analysis could not fully process this document.")],
   contract_explanation |-> JStr("The document analysis could not be completed automatically."),
   legal_terms_simplified |-> EmptyList,
   risky_parts |-> EmptyList,
   missing_clauses |-> EmptyList,
   recommended_changes |-> EmptyList,
   final_recommendations |-> JStr("Please have this document reviewed by a qualified legal professional."),
   raw_response |-> response_text]

\* ------------------------------------------------------------------------
\* Financial normalizer and fallback
\* ------------------------------------------------------------------------
\* FinancialValidate returning the parsed object as it came
FinancialValidateKeepAll(data) == Ok(data.o)

FinancialValidate(data) ==
  Ok([financial_overview |-> PyGet(data, "financial_overview", EmptyDict).v,
      spending_breakdown |-> PyGet(data, "spending_breakdown", EmptyList).v,
      income_sources |-> PyGet(data, "income_sources", EmptyList).v,
      financial_habits |-> PyGet(data, "financial_habits", EmptyDict).v,
      goal_analysis |-> PyGet(data, "goal_analysis", EmptyDict).v,
      recommendations |-> PyGet(data, "recommendations", EmptyDict).v,
      action_plan |-> PyGet(data, "action_plan", EmptyDict).v,
      income_optimization |-> PyGet(data, "income_optimization", EmptyList).v,
      risk_assessment |-> PyGet(data, "risk_assessment", EmptyDict).v,
      personalized_insights |->
        PyStr(PyGet(data, "personalized_insights", JStr("No specific insights available")).v)])

FinancialFallback(response_text) ==
  [financial_overview |-> JObj([total_income |-> JFloat(0),
                                total_expenses |-> JFloat(0),
                                net_savings |-> JFloat(0),
                                analysis_period |-> JStr("Unable to determine"),
                                average_monthly_income |-> JFloat(0),
                                average_monthly_expenses |-> JFloat(0)]),
   spending_breakdown |-> EmptyList,
   income_sources |-> EmptyList,
   financial_habits |-> JObj([good_habits |-> EmptyList,
                              bad_habits |-> EmptyList,
                              subscriptions |-> EmptyList]),
   goal_analysis |-> JObj([feasibility |-> JStr("unknown"),
                           time_to_reach_goal |-> JStr("Unable to calculate")]),
   recommendations |-> JObj([stop_doing |-> EmptyList,
                             start_doing |-> EmptyList,
                             budget_suggestions |-> EmptyList]),
   action_plan |-> JObj([immediate_actions |-> EmptyList,
                         short_term_goals |-> EmptyList,
                         long_term_strategy |-> EmptyList]),
   income_optimization |-> EmptyList,
   risk_assessment |-> JObj([financial_stability |-> JStr("unknown")]),
   personalized_insights |-> JStr("The financial analysis could not be completed automatically. Please have your financial data reviewed by a qualified financial advisor."),
   raw_response |-> response_text]

\* ------------------------------------------------------------------------
\* Bill normalizer and fallback
\* ------------------------------------------------------------------------
\* what "for item in v" visits: the elements of a list, the characters of a
\* string, the keys of a dict; any other value is not iterable
PyIter(v) ==
  CASE v.k = "list" -> Ok(v.l)
    [] v.k = "str" -> Ok(IF v.s = "" THEN <<>> ELSE <<JStr(v.s)>>)
    [] v.k = "obj" ->
         Ok(IF DOMAIN v.o = {} THEN <<>>
            ELSE <<JStr(CHOOSE key \in DOMAIN v.o : TRUE)>>)
    [] OTHER ->
         Raise("TypeError", <<"'", TypeName(v), "' object is not iterable">>)

\* sum(item['amount'] for item in items), in hundredths
SumAmounts(items) ==
  LET RECURSIVE sum(_)
      sum(i) == IF i > Len(items) THEN 0 ELSE items[i].amount + sum(i + 1)
  IN sum(1)

\* BillCleanItems that ends the loop at the first item it cannot convert
BillCleanItemsStopAtBad(raw) ==
  LET RECURSIVE clean(_, _)
      clean(i, acc) ==
        IF i > Len(raw) THEN Ok(acc)
        ELSE LET name == PyGet(raw[i], "name", JStr("Unknown"))
                 amount == PyFloat(PyGet(raw[i], "amount", JFloat(0)).v)
             IN IF ~name.ok THEN name
                ELSE IF ~amount.ok THEN Ok(acc)
                ELSE clean(i + 1, Append(acc,
                       [name |-> PyStr(name.v),
                        amount |-> amount.v,
                        category |-> PyStr(PyGet(raw[i], "category", JStr("Unknown")).v),
                        notes |-> PyStr(PyGet(raw[i], "notes", JStr("")).v)]))
  IN clean(1, <<>>)

\* the loop over data['items']: an item whose amount float() rejects is
\* skipped; an item that is no dict raises out of the loop
BillCleanItems(raw) ==
  LET RECURSIVE clean(_, _)
      clean(i, acc) ==
        IF i > Len(raw) THEN Ok(acc)
        ELSE LET name == PyGet(raw[i], "name", JStr("Unknown"))
                 amount == PyFloat(PyGet(raw[i], "amount", JFloat(0)).v)
             IN IF ~name.ok THEN name
                ELSE IF ~amount.ok THEN clean(i + 1, acc)
                ELSE clean(i + 1, Append(acc,
                       [name |-> PyStr(name.v),
                        amount |-> amount.v,
                        category |-> PyStr(PyGet(raw[i], "category", JStr("Unknown")).v),
                        notes |-> PyStr(PyGet(raw[i], "notes", JStr("")).v)]))
  IN clean(1, <<>>)

BillValidate(data, language) ==
  LET raw == PyIter(PyGet(data, "items", EmptyList).v)
      items == BillCleanItems(raw.v)
      total == PyFloat(PyGet(data, "total", JFloat(0)).v)
  IN IF ~raw.ok THEN raw
     ELSE IF ~items.ok THEN items
     ELSE Ok([items |-> items.v,
              total |-> IF total.ok THEN total.v ELSE SumAmounts(items.v),
              currency |-> PyGet(data, "currency", JStr("USD")).v,
              summary |-> PyGet(data, "summary", JStr("")).v,
              observations |-> PyGet(data, "observations", JStr("")).v,
              suggestions |-> PyGet(data, "suggestions", JStr("")).v,
              language |-> language])

\* BillFallback with the test on the language spelled as detected
BillFallbackCaseSensitive(response_text, language) ==
  IF language \in {<<"Spanish">>, <<"Español">>}
    THEN [items |-> <<>>,
          total |-> 0,
          currency |-> JStr("EUR"),
          summary |-> JStr("No se pudieron extraer elementos específicos de la factura."),
          observations |-> JStr("El análisis automático no pudo procesar completamente este documento."),
          suggestions |-> JStr("Considere verificar manualmente los elementos de la factura."),
          language |-> language,
          raw_response |-> response_text]
    ELSE [items |-> <<>>,
          total |-> 0,
          currency |-> JStr("USD"),
          summary |-> JStr("Could not extract specific items from the bill."),
          observations |-> JStr("Automatic analysis could not fully process this document."),
          suggestions |-> JStr("Consider manually reviewing the bill items."),
          language |-> language,
          raw_response |-> response_text]

\* BillFallback without the narrative fields
BillFallbackTotalsOnly(response_text, language) ==
  [items |-> <<>>, total |-> 0, language |-> language, raw_response |-> response_text]

BillFallback(response_text, language) ==
  IF Lower(language) \in {<<"spanish">>, <<"español">>}
    THEN [items |-> <<>>,
          total |-> 0,
          currency |-> JStr("EUR"),
          summary |-> JStr("No se pudieron extraer elementos específicos de la factura."),
          observations |-> JStr("El análisis automático no pudo procesar completamente este documento."),
          suggestions |-> JStr("Considere verificar manualmente los elementos de la factura."),
          language |-> language,
          raw_response |-> response_text]
    ELSE [items |-> <<>>,
          total |-> 0,
          currency |-> JStr("USD"),
          summary |-> JStr("Could not extract specific items from the bill."),
          observations |-> JStr("Automatic analysis could not fully process this document."),
          suggestions |-> JStr("Consider manually reviewing the bill items."),
          language |-> language,
          raw_response |-> response_text]

\* ------------------------------------------------------------------------
\* _parse_claude_response of the three processors. The result carries the
\* branch taken: NORMALIZED (validated data) or FALLBACK.
\* ------------------------------------------------------------------------
Tasks == {"bill", "contract", "financial", "cv", "video", "chat"}

\* the keys of cleaned_data in _validate_and_clean_data
SchemaFields(task) ==
  CASE task = "contract" ->
         {"contract_title", "duration", "parties", "contract_details", "risk_assessment",
          "contract_explanation", "legal_terms_simplified", "risky_parts",
          "missing_clauses", "recommended_changes", "final_recommendations"}
    [] task = "financial" ->
         {"financial_overview", "spending_breakdown", "income_sources", "financial_habits",
          "goal_analysis", "recommendations", "action_plan", "income_optimization",
          "risk_assessment", "personalized_insights"}
    [] task = "bill" ->
         {"items", "total", "currency", "summary", "observations", "suggestions", "language"}

Validate(task, data, language) ==
  CASE task = "contract" -> ContractValidate(data)
    [] task = "financial" -> FinancialValidate(data)
    [] task = "bill" -> BillValidate(data, language)

Fallback(task, response_text, language) ==
  CASE task = "contract" -> ContractFallback(response_text)
    [] task = "financial" -> FinancialFallback(response_text)
    [] task = "bill" -> BillFallback(response_text, language)

\* the return of _validate_and_clean_data, or the exception it raised
Normalized(cleaned) ==
  IF cleaned.ok THEN [ok |-> TRUE, v |-> cleaned.v, path |-> "NORMALIZED"] ELSE cleaned

\* FellBack that does not pass the reply text on
FellBackNoRaw(task, response_text, language) ==
  [ok |-> TRUE, path |-> "FALLBACK", v |-> Fallback(task, <<>>, language)]

\* the two calls of _create_fallback_response
FellBack(task, response_text, language) ==
  [ok |-> TRUE, path |-> "FALLBACK", v |-> Fallback(task, response_text, language)]

\* ParseMatch without the except JSONDecodeError clause
ParseMatchNoExcept(task, data, response_text, language) ==
  IF data.ok THEN Normalized(Validate(task, data.v, language)) ELSE data

\* json.loads and what follows it, with the except JSONDecodeError clause
ParseMatch(task, data, response_text, language) ==
  IF data.ok
    THEN Normalized(Validate(task, data.v, language))
    ELSE FellBack(task, response_text, language)

ParseClaudeResponse(task, response_text, language) ==
  IF JsonMatch(response_text) # <<>>
    THEN ParseMatch(task, JsonLoads(JsonMatch(response_text)), response_text, language)
    ELSE FellBack(task, response_text, language)

\* ------------------------------------------------------------------------
\* The completion endpoint's answers
\* ------------------------------------------------------------------------
\* a 200 whose body is the JSON {content: [...]}
Resp200(content) == [kind |-> "http", status |-> 200, json |-> Ok(content)]

\* a 200 whose body response.json() rejects
Bad200 ==
  [kind |-> "http", status |-> 200,
   json |-> Raise("JSONDecodeError", <<"Expecting value: line 1 column 1 (char 0)">>)]

\* any other status, with response.text
RespStatus(status, text) == [kind |-> "http", status |-> status, text |-> text]

\* requests.post raised
Transport(msg) == [kind |-> "exception", msg |-> msg]

TextItem(text) == [type |-> "text", text |-> text]

ErrorBodies ==
  {<<"Internal server error">>,
   <<"{\"type\":\"error\",\"error\":{\"type\":\"", "overloaded", "_error\"}}">>,
   <<"Overloaded">>}

FailureResponses ==
  {RespStatus(529, <<"{\"type\":\"error\",\"error\":{\"type\":\"", "overloaded", "_error\"}}">>)}
  \cup {RespStatus(st, b) : st \in {500, 401}, b \in ErrorBodies}
  \cup {Transport(<<"Connection refused">>), Transport(<<"Proxy: upstream ", "Overloaded">>)}
  \cup {Bad200}

\* --- reply objects -------------------------------------------------------
Risk(safety) ==
  JObj([safety_percentage |-> safety, risk_level |-> JStr("Low"),
        scam_likelihood |-> JStr("Very Low"), explanation |-> JStr("Standard terms")])

RiskNoSafety == JObj([risk_level |-> JStr("High")])

Parties == JObj([party1 |-> JStr("A"), party2 |-> JStr("B")])

SafetyValues ==
  {JInt(150), JInt(-5), JInt(0), JInt(85), JInt(100), JFloat(8570), JFloat(-50),
   JStr("85"), JStr("high"), JStr("overloaded"), JNull, JBool(TRUE), EmptyList}

ContractObjects ==
  {JObj([contract_title |-> JStr("NDA"), parties |-> Parties, risk_assessment |-> Risk(sp)]) :
     sp \in SafetyValues}
  \cup {JObj([contract_title |-> JStr("NDA"), parties |-> Parties, risk_assessment |-> r]) :
          r \in {RiskNoSafety, JNull, JStr("high"), EmptyList}}
  \cup {JObj([contract_title |-> JStr("NDA"), parties |-> p]) :
          p \in {JStr("A and B"), JNull}}
  \cup {EmptyDict,
        JObj([contract_title |-> JInt(7), risky_parts |-> JStr("none"), verdict |-> JStr("ok")])}

FinancialObjects ==
  {EmptyDict,
   JObj([financial_overview |-> JObj([total_income |-> JFloat(120000)]),
         personalized_insights |-> JStr("Save more")]),
   JObj([financial_overview |-> JStr("n/a"), spending_breakdown |-> JNull,
         personalized_insights |-> JInt(3), verdict |-> JStr("ok")])}

Item(name, amount) == JObj([name |-> JStr(name), amount |-> amount])

BillObjects ==
  {EmptyDict,
   JObj([items |-> JList(<<Item("water", JFloat(1050)), Item("power", JFloat(425))>>),
         total |-> JFloat(1475), currency |-> JStr("EUR"), vendor |-> JStr("ACME")]),
   JObj([items |-> JList(<<Item("water", JFloat(1050)), Item("power", JFloat(425))>>),
         total |-> JStr("n/a")]),
   JObj([items |-> JList(<<Item("water", JFloat(1050)), Item("power", JFloat(425))>>)]),
   JObj([items |-> JList(<<Item("water", JStr("10.5")), Item("fee", JStr("free")),
                           Item("power", JInt(4))>>),
         total |-> JNull]),
   JObj([items |-> JNull, total |-> JInt(3)]),
   JObj([items |-> JStr("none")]),
   JObj([items |-> JList(<<JStr("water")>>)]),
   JObj([items |-> JInt(2)])}

VideoObjects ==
  {EmptyDict,
   JObj([claims_analysis |-> EmptyList, summary |-> JStr("A talk")])}

Objects(task) ==
  CASE task = "contract" -> ContractObjects
    [] task = "financial" -> FinancialObjects
    [] task = "bill" -> BillObjects
    [] task = "video" -> VideoObjects
    [] OTHER -> {EmptyDict}

\* --- reply texts ----------------------------------------------------------
TwoObjects == <<JObj([contract_title |-> JStr("First")]), JObj([contract_title |-> JStr("Second")])>>

\* texts from which no JSON object is extracted and parsed
PlainTexts ==
  {<<>>,
   <<Prose("I could not analyze this document.")>>,
   <<LBrace, Prose("unfinished")>>,
   <<RBrace, Prose("then"), LBrace>>,
   <<LBrace, Prose("not json"), RBrace>>,
   <<ObjText(TwoObjects[1]), Prose("and"), ObjText(TwoObjects[2])>>}

\* texts that hold one object: alone, or with prose around it
ObjectTexts(task) ==
  {<<ObjText(o)>> : o \in Objects(task)}
  \cup {<<Prose("Here is the analysis:"), ObjText(o), Prose("Let me know.")>> :
          o \in Objects(task)}
  \cup {<<LBrace, RBrace>>}

\* the objects that are also sent with braces in the prose around them
BracedObjects(task) ==
  Objects(task) \cap
    {EmptyDict,
     JObj([contract_title |-> JStr("NDA"), parties |-> Parties,
           risk_assessment |-> Risk(JInt(85))]),
     JObj([contract_title |-> JStr("NDA"), parties |-> JNull])}

\* texts that hold one object and prose with braces of its own: a '{' before
\* the object, a '}' after it, and braces that do not widen the span
BracedTexts(task) ==
  {<<Prose("Fill in "), LBrace, Prose("name"), RBrace, Prose(" below: "), ObjText(o)>> :
     o \in BracedObjects(task)}
  \cup {<<ObjText(o), Prose(" (see clause 3"), RBrace>> : o \in BracedObjects(task)}
  \cup {<<RBrace, Prose(" closes the template. "), ObjText(o), Prose(" Next: "), LBrace>> :
          o \in BracedObjects(task)}

ReplyTexts(task) == PlainTexts \cup ObjectTexts(task) \cup BracedTexts(task)

\* 200 answers: the reply in one text item; in two, around an item of
\* another type; and a body without text items
OkResponses(task) ==
  {Resp200(<<TextItem(t)>>) : t \in ReplyTexts(task)}
  \cup {Resp200(<<TextItem(<<Prose("Result:")>>), [type |-> "tool_use", text |-> <<>>],
                  TextItem(<<ObjText(o)>>)>>) : o \in Objects(task)}
  \cup {Resp200(<<>>)}

Responses(task) == OkResponses(task) \cup FailureResponses

\* ------------------------------------------------------------------------
\* Text extraction (_extract_text of the three processors)
\* ------------------------------------------------------------------------
FileExtensions == {".pdf", ".PDF", ".docx", ".doc", ".txt", ".csv", ".png", ".exe"}

\* os.path.splitext(file_path)[1].lower()
LowerExt(ext) == IF ext = ".PDF" THEN ".pdf" ELSE ext

\* what the library that reads the file gives: a text, or an exception
ReaderOutcomes ==
  {Ok(<<>>), Ok(<<" ", "\n">>),
   Ok(<<"Non-disclosure agreement between A and B...">>),
   Raise("Exception", <<"cannot open file">>)}

\* the except clause of the _extract_text_from_* functions
Rewrap(prefix, r) == IF r.ok THEN r ELSE Raise("Exception", <<prefix>> \o r.msg)

ExtractText(task, file, read) ==
  LET ext == LowerExt(file)
  IN CASE task = "contract" ->
            (CASE ext = ".pdf" -> Rewrap("Failed to extract text from PDF: ", read)
               [] ext = ".docx" -> Rewrap("Failed to extract text from DOCX: ", read)
               [] ext = ".doc" ->
                    Ok(<<"DOC file processing requires additional libraries. Please convert to DOCX or PDF for better results.">>)
               [] ext = ".txt" -> Rewrap("Failed to extract text from TXT: ", read)
               [] OTHER -> Raise("Exception", <<"Unsupported file format: ", ext>>))
       [] task = "financial" ->
            (CASE ext = ".pdf" -> Rewrap("Failed to extract text from PDF: ", read)
               [] ext = ".csv" -> Rewrap("Failed to extract text from CSV: ", read)
               [] ext = ".txt" -> Rewrap("Failed to extract text from TXT: ", read)
               [] OTHER -> Raise("Exception", <<"Unsupported file format: ", ext>>))
       [] task = "bill" ->
            IF ext = ".pdf"
              THEN Rewrap("Failed to extract text from PDF: ", read)
              ELSE Rewrap("Failed to extract text from image: ", read)

NoTextError(task) ==
  IF task = "financial"
    THEN <<"No data could be extracted from the file">>
    ELSE <<"No text could be extracted from the file">>

\* ------------------------------------------------------------------------
\* One attempt of _analyze_with_claude (contract, financial)
\* ------------------------------------------------------------------------
max_retries == 3

initial_retry_delay == 2

RetryTasks == {"contract", "financial"}

ProcessorTasks == {"bill", "contract", "financial"}

FailurePrefix(task) ==
  CASE task = "contract" -> "Failed to analyze contract: "
    [] task = "financial" -> "Failed to analyze financial data: "
    [] task = "bill" -> "Failed to analyze bill: "

OverloadedMessage ==
  <<"API is currently ", "overloaded", ". Please try again in a few minutes.">>

ApiErrorMessage(resp) == <<"API Error: ", ToString(resp.status), " - ">> \o resp.text

\* return self._parse_claude_response(analysis_text), or its exception
Returned(parsed) ==
  IF parsed.ok
    THEN [t |-> "return", v |-> parsed.v, path |-> parsed.path, raised |-> <<>>]
    ELSE [t |-> "raise", msg |-> parsed.msg, raised |-> parsed.msg]

Raised(msg) == [t |-> "raise", msg |-> msg, raised |-> msg]

\* the statements after requests.post for a reply that is not 529:
\* [t: "return", v, path] or [t: "raise", msg]
HandleReply(task, resp, language) ==
  IF resp.kind = "exception" THEN Raised(resp.msg)
  ELSE IF resp.status # 200 THEN Raised(ApiErrorMessage(resp))
  ELSE IF ~resp.json.ok THEN Raised(resp.json.msg)
  ELSE Returned(ParseClaudeResponse(task, JoinText(resp.json.v), language))

\* TryBlock with the attempt bound of the 529 branch dropped
TryBlockAlwaysRetry(task, resp, attempt) ==
  IF resp.kind = "http" /\ resp.status = 529
    THEN [t |-> "continue", raised |-> <<>>]
    ELSE HandleReply(task, resp, <<>>)

\* the try block of one loop iteration: also [t: "continue"] (sleep, retry)
TryBlock(task, resp, attempt) ==
  IF resp.kind = "http" /\ resp.status = 529
    THEN IF attempt < max_retries - 1
           THEN [t |-> "continue", raised |-> <<>>]
           ELSE Raised(OverloadedMessage)
    ELSE HandleReply(task, resp, <<>>)

\* RetryOnException without the test on the message
RetryOnAnyException(msg, attempt) == attempt < max_retries - 1

\* the condition of the except clause's retry branch
RetryOnException(msg, attempt) ==
  Contains(Lower(msg), "overloaded") /\ attempt < max_retries - 1

\* ExceptClause with the attempt bound of the retry branch dropped
ExceptClauseAlwaysRetry(task, body, attempt) ==
  IF body.t = "raise"
    THEN IF Contains(Lower(body.msg), "overloaded")
           THEN [t |-> "continue", raised |-> body.raised]
           ELSE [t |-> "raise", msg |-> <<FailurePrefix(task)>> \o body.msg,
                 raised |-> body.raised]
    ELSE body

\* the except clause of the loop, on what the try block did
ExceptClause(task, body, attempt) ==
  IF body.t = "raise"
    THEN IF RetryOnException(body.msg, attempt)
           THEN [t |-> "continue", raised |-> body.raised]
           ELSE [t |-> "raise", msg |-> <<FailurePrefix(task)>> \o body.msg,
                 raised |-> body.raised]
    ELSE body

\* one loop iteration, try block and except clause together; raised is the
\* message of the exception the try block raised, <<>> when none
Attempt(task, resp, attempt) == ExceptClause(task, TryBlock(task, resp, attempt), attempt)

\* the except clause of BillProcessor._analyze_with_claude
BillExcept(h) ==
  IF h.t = "raise"
    THEN [t |-> "raise", msg |-> <<FailurePrefix("bill")>> \o h.msg, raised |-> h.raised]
    ELSE h

\* ProcessResult without the except clause: the exception leaves process_*
ProcessResultNoExcept(outcome) ==
  IF outcome.t = "return"
    THEN [success |-> TRUE, data |-> outcome.v]
    ELSE [raised |-> outcome.msg]

\* process_bill / process_contract / process_financial_data around
\* _analyze_with_claude: the return statement and the except clause
ProcessResult(outcome) ==
  IF outcome.t = "return"
    THEN [success |-> TRUE, data |-> outcome.v]
    ELSE [success |-> FALSE, error |-> outcome.msg]

\* ------------------------------------------------------------------------
\* CV and video helpers
\* ------------------------------------------------------------------------
\* HRHelper.allowed_file on a file name with the given extension
AllowedCv(file) == LowerExt(file) \in {".pdf", ".doc", ".docx"}

\* HRHelper.analyze_cvs_with_claude: always a string
CvAnalysis(resp) ==
  IF resp.kind = "exception" THEN <<"Error analyzing CVs: ">> \o resp.msg
  ELSE IF resp.status # 200 THEN ApiErrorMessage(resp)
  ELSE IF ~resp.json.ok THEN <<"Error analyzing CVs: ">> \o resp.json.msg
  ELSE JoinText(resp.json.v)

\* VideoAnalyzer.analyze_with_claude: the parsed object, or None
VideoAnalysis(resp) ==
  IF resp.kind = "exception" THEN JNull
  ELSE IF resp.status # 200 THEN JNull
  ELSE IF ~resp.json.ok THEN JNull
  ELSE LET response_text == JoinText(resp.json.v)
           json_match == JsonMatch(response_text)
           loaded == JsonLoads(json_match)
       IN IF json_match # <<>>
            THEN IF loaded.ok THEN loaded.v ELSE JNull
            \* json.loads of a text without a '{'...'}' span: the texts of
            \* the model are prose, which json.loads rejects
            ELSE JNull

\* "not v" for the values an analysis can be
Falsy(v) == v.k = "null" \/ (v.k = "obj" /\ DOMAIN v.o = {})

LanguageTexts ==
  {<<"Spanish">>, <<"English">>, <<" ", "Español", "\n">>, <<"SPANISH">>,
   <<"French">>, <<"The language is ", "Spanish">>}

LanguageResponses ==
  {Resp200(<<TextItem(l)>>) : l \in LanguageTexts} \cup FailureResponses

\* ------------------------------------------------------------------------
\* State
\* ------------------------------------------------------------------------
VARIABLES
  task,         \* which pipeline this request runs
  file,         \* extension of the uploaded file
  pc,           \* where the request is
  attempt,      \* loop variable of _analyze_with_claude
  retry_delay,  \* local of _analyze_with_claude
  calls,        \* the requests issued so far, in order
  sleeps,       \* the arguments of the time.sleep calls so far, in order
  last,         \* the answer to the last request
  language,     \* bill: detected_language
  analysis_prompt, \* bill: the language of the prompt _get_analysis_prompt built
  audio_path,   \* video: local of analyze_video
  transcription, \* video: local of analyze_video
  outcome,      \* the terminal state of the pipeline (section 4.6 names)
  result,       \* what the entry point returned
  conversations, \* ConversationManager.conversations: user_id -> list object
  lists,        \* the list objects of the store: identity -> turns
  th,           \* per thread: the store call it is in, its position and locals
  budget,       \* per thread: how many store calls it may still start
  start,        \* the histories the store held initially
  ledger,       \* per user_id, since its conversation was created: the turns
                \* it was created with, the turns appended, whether it was trimmed
  peer,         \* the locals of a second request, whose thread is not running
  running       \* which of the two requests the variables above belong to

pipelineVars ==
  <<task, file, pc, attempt, retry_delay, calls, sleeps, last, language,
    analysis_prompt, audio_path, transcription, outcome, result>>

storeVars == <<conversations, lists, th, budget, start, ledger>>

pairVars == <<peer, running>>

vars == <<pipelineVars, storeVars, pairVars>>

\* --- Conversation Store: sessions and threads ------------------------------
SessionIds == {"u1", "u2"}

Threads == {1, 2}

\* a thread that is in no store call; conversation is the local of
\* add_message (0: unbound), ret what the last call returned or raised
IdleThread ==
  [pc |-> "idle", op |-> "none", user_id |-> "", role |-> "", content |-> "",
   conversation |-> 0, ret |-> "none"]

NoLedger == [created |-> <<>>, appended |-> <<>>, trimmed |-> FALSE]

\* the store of a process that serves no chat request
StoreUnused ==
  /\ conversations = <<>>
  /\ lists = <<>>
  /\ th = [t \in Threads |-> IdleThread]
  /\ budget = [t \in Threads |-> 0]
  /\ start = <<>>
  /\ ledger = [u \in SessionIds |-> NoLedger]

NoResponse == [kind |-> "none"]

\* a process that serves one request at a time
NoPeer == [pc |-> "none"]

PeerUnused == peer = NoPeer /\ running = 1

\* the locals of a request that has not started
Unstarted ==
  /\ pc = "START"
  /\ attempt = 0
  /\ retry_delay = 0
  /\ calls = <<>>
  /\ sleeps = <<>>
  /\ last = NoResponse
  /\ language = <<>>
  /\ analysis_prompt = "unset"
  /\ audio_path = "unset"
  /\ transcription = "unset"
  /\ outcome = "NONE"
  /\ result = <<>>

Init ==
  /\ task \in Tasks
  /\ file \in IF task = "video" THEN {".wav"}
               ELSE IF task = "chat" THEN {""} ELSE FileExtensions
  /\ Unstarted
  /\ StoreUnused
  /\ PeerUnused

Status(resp) == IF resp.kind = "http" THEN resp.status ELSE 0

Finish(res, out) ==
  /\ pc' = "DONE"
  /\ result' = res
  /\ outcome' = out

\* Extract without the empty-text test
ExtractNoEmptyTest(read) ==
  /\ pc = "START"
  /\ task \in ProcessorTasks
  /\ LET text == ExtractText(task, file, read)
     IN IF ~text.ok
          THEN /\ Finish([success |-> FALSE, error |-> text.msg], "EXTRACTION_FAILED")
               /\ UNCHANGED <<attempt, retry_delay>>
          ELSE /\ pc' = IF task = "bill" THEN "LANGUAGE" ELSE "AWAITING_COMPLETION"
               /\ attempt' = 0
               /\ retry_delay' = IF task \in RetryTasks THEN initial_retry_delay ELSE 0
               /\ UNCHANGED <<result, outcome>>
  /\ UNCHANGED <<task, file, analysis_prompt, audio_path, transcription, calls, sleeps, last, language>>

\* process_*: _extract_text and the empty-text test
Extract(read) ==
  /\ pc = "START"
  /\ task \in ProcessorTasks
  /\ LET text == ExtractText(task, file, read)
     IN IF ~text.ok
          THEN /\ Finish([success |-> FALSE, error |-> text.msg], "EXTRACTION_FAILED")
               /\ UNCHANGED <<attempt, retry_delay>>
          ELSE IF Strip(text.v) = <<>>
            THEN /\ Finish([success |-> FALSE, error |-> NoTextError(task)], "EXTRACTION_FAILED")
                 /\ UNCHANGED <<attempt, retry_delay>>
            ELSE /\ pc' = IF task = "bill" THEN "LANGUAGE" ELSE "AWAITING_COMPLETION"
                 /\ attempt' = 0
                 /\ retry_delay' = IF task \in RetryTasks THEN initial_retry_delay ELSE 0
                 /\ UNCHANGED <<result, outcome>>
  /\ UNCHANGED <<task, file, analysis_prompt, audio_path, transcription, calls, sleeps, last, language>>

\* what one loop iteration leads to: the sleep, or the end of process_*
Conclude(a) ==
  IF a.t = "continue"
    THEN pc' = "BACKOFF" /\ UNCHANGED <<result, outcome>>
    ELSE Finish(ProcessResult(a), IF a.t = "return" THEN a.path ELSE "API_FAILED")

Call(req, resp, raised) == [req |-> req, status |-> Status(resp), raised |-> raised]

\* contract, financial: requests.post returns or raises, and the rest of
\* the loop iteration up to the sleep, the return or the raise
AttemptDone(resp, a) ==
  /\ calls' = Append(calls, Call("analysis", resp, a.raised))
  /\ last' = resp
  /\ Conclude(a)

CompleteWithRetry(resp) ==
  /\ pc = "AWAITING_COMPLETION"
  /\ task \in RetryTasks
  /\ AttemptDone(resp, Attempt(task, resp, attempt))
  /\ UNCHANGED <<task, file, analysis_prompt, audio_path, transcription, attempt, retry_delay, sleeps, language>>

\* Backoff without the doubling of retry_delay
BackoffFixedDelay ==
  /\ pc = "BACKOFF"
  /\ sleeps' = Append(sleeps, retry_delay)
  /\ attempt' = attempt + 1
  /\ pc' = "AWAITING_COMPLETION"
  /\ UNCHANGED <<task, file, analysis_prompt, audio_path, transcription, calls, last, language, retry_delay, result, outcome>>

\* time.sleep(retry_delay) returns; retry_delay *= 2; continue. A loop
\* that runs out of iterations ends the function, which returns None.
Backoff ==
  /\ pc = "BACKOFF"
  /\ sleeps' = Append(sleeps, retry_delay)
  /\ retry_delay' = retry_delay * 2
  /\ IF attempt + 1 < max_retries
       THEN /\ attempt' = attempt + 1
            /\ pc' = "AWAITING_COMPLETION"
            /\ UNCHANGED <<result, outcome>>
       ELSE /\ Finish([success |-> TRUE, data |-> JNull], "NOTHING_RETURNED")
            /\ UNCHANGED attempt
  /\ UNCHANGED <<task, file, analysis_prompt, audio_path, transcription, calls, last, language>>

\* the exception of requests.post or of response.json(), <<>> when none
TransportOrBody(resp) ==
  IF resp.kind = "exception" THEN resp.msg
  ELSE IF resp.status = 200 /\ ~resp.json.ok THEN resp.json.msg
  ELSE <<>>

\* _get_analysis_prompt: which of the two prompt templates is used
GetAnalysisPrompt(lang) ==
  IF Lower(lang) \in {<<"spanish">>, <<"español">>} THEN "Spanish" ELSE "English"

\* bill: detected_language is bound and the analysis prompt is built
Detected(lang) ==
  /\ language' = lang
  /\ analysis_prompt' = GetAnalysisPrompt(lang)
  /\ pc' = "AWAITING_COMPLETION"
  /\ UNCHANGED <<result, outcome>>

\* DetectLanguage that treats a status other than 200 as a failure
DetectLanguageStrict(resp) ==
  /\ pc = "LANGUAGE"
  /\ calls' = Append(calls, Call("language", resp, TransportOrBody(resp)))
  /\ last' = resp
  /\ IF resp.kind = "exception"
       THEN /\ Finish(ProcessResult(BillExcept(Raised(resp.msg))), "API_FAILED")
            /\ UNCHANGED <<language, analysis_prompt>>
       ELSE IF resp.status = 200
         THEN IF resp.json.ok
                THEN Detected(Strip(JoinText(resp.json.v)))
                ELSE /\ Finish(ProcessResult(BillExcept(Raised(resp.json.msg))), "API_FAILED")
                     /\ UNCHANGED <<language, analysis_prompt>>
         ELSE /\ Finish(ProcessResult(BillExcept(Raised(ApiErrorMessage(resp)))), "API_FAILED")
              /\ UNCHANGED <<language, analysis_prompt>>
  /\ UNCHANGED <<task, file, audio_path, transcription, attempt, retry_delay, sleeps>>

\* bill: the language detection request
DetectLanguage(resp) ==
  /\ pc = "LANGUAGE"
  /\ calls' = Append(calls, Call("language", resp, TransportOrBody(resp)))
  /\ last' = resp
  /\ IF resp.kind = "exception"
       THEN /\ Finish(ProcessResult(BillExcept(Raised(resp.msg))), "API_FAILED")
            /\ UNCHANGED <<language, analysis_prompt>>
       ELSE IF resp.status = 200
         THEN IF resp.json.ok
                THEN Detected(Strip(JoinText(resp.json.v)))
                ELSE /\ Finish(ProcessResult(BillExcept(Raised(resp.json.msg))), "API_FAILED")
                     /\ UNCHANGED <<language, analysis_prompt>>
         ELSE Detected(<<"English">>)
  /\ UNCHANGED <<task, file, audio_path, transcription, attempt, retry_delay, sleeps>>

\* CompleteBill with a retry of the analysis request on status 529
CompleteBillRetrying(resp) ==
  /\ pc = "AWAITING_COMPLETION"
  /\ task = "bill"
  /\ IF resp.kind = "http" /\ resp.status = 529 /\ attempt < max_retries - 1
       THEN /\ calls' = Append(calls, Call("analysis", resp, <<>>))
            /\ last' = resp
            /\ attempt' = attempt + 1
            /\ UNCHANGED <<pc, result, outcome>>
       ELSE /\ AttemptDone(resp, BillExcept(HandleReply("bill", resp, language)))
            /\ UNCHANGED attempt
  /\ UNCHANGED <<task, file, analysis_prompt, audio_path, transcription,
                 retry_delay, sleeps, language>>

\* bill: the analysis request and the rest of _analyze_with_claude
CompleteBill(resp) ==
  /\ pc = "AWAITING_COMPLETION"
  /\ task = "bill"
  /\ AttemptDone(resp, BillExcept(HandleReply("bill", resp, language)))
  /\ UNCHANGED <<task, file, analysis_prompt, audio_path, transcription, attempt, retry_delay, sleeps, language>>

\* CV: analyze_cvs up to the completion request
CvStart(job_role, named) ==
  /\ pc = "START"
  /\ task = "cv"
  /\ IF job_role = ""
       THEN Finish([error |-> <<"Job role is required">>], "INPUT_REJECTED")
       ELSE IF ~named
         THEN Finish([error |-> <<"Please upload at least one CV file">>], "INPUT_REJECTED")
         ELSE IF ~AllowedCv(file)
           THEN Finish([error |-> <<"No valid CV files found">>], "EXTRACTION_FAILED")
           ELSE pc' = "AWAITING_COMPLETION" /\ UNCHANGED <<result, outcome>>
  /\ UNCHANGED <<task, file, analysis_prompt, audio_path, transcription, attempt, retry_delay, calls, sleeps, last, language>>

\* CV: analyze_cvs_with_claude and the return of analyze_cvs
CompleteCv(resp) ==
  /\ pc = "AWAITING_COMPLETION"
  /\ task = "cv"
  /\ calls' = Append(calls, Call("analysis", resp, TransportOrBody(resp)))
  /\ last' = resp
  /\ Finish([success |-> TRUE, files_processed |-> 1, analysis |-> CvAnalysis(resp)],
            IF resp.kind = "http" /\ resp.status = 200 /\ resp.json.ok
              THEN "RETURNED" ELSE "API_FAILED")
  /\ UNCHANGED <<task, file, analysis_prompt, audio_path, transcription, attempt, retry_delay, sleeps, language>>

\* video: download_video_audio gives a path or None
Download(downloaded) ==
  /\ pc = "START"
  /\ task = "video"
  /\ audio_path' = downloaded
  /\ IF downloaded = "None"
       THEN Finish([error |-> <<"Failed to download video audio">>], "DOWNLOAD_FAILED")
       ELSE pc' = "TRANSCRIBING" /\ UNCHANGED <<result, outcome>>
  /\ UNCHANGED <<task, file, analysis_prompt, transcription, attempt, retry_delay, calls, sleeps, last, language>>

\* Transcribe without the test on what transcribe_audio returned
TranscribeUnchecked(transcribed) ==
  /\ pc = "TRANSCRIBING"
  /\ transcription' = transcribed
  /\ pc' = "AWAITING_COMPLETION"
  /\ UNCHANGED <<result, outcome>>
  /\ UNCHANGED <<task, file, analysis_prompt, audio_path, attempt, retry_delay, calls,
                 sleeps, last, language>>

\* video: transcribe_audio gives a text or None
Transcribe(transcribed) ==
  /\ pc = "TRANSCRIBING"
  /\ transcription' = transcribed
  /\ IF transcribed \in {"None", ""}
       THEN Finish([error |-> <<"Failed to transcribe video">>], "TRANSCRIPTION_FAILED")
       ELSE pc' = "AWAITING_COMPLETION" /\ UNCHANGED <<result, outcome>>
  /\ UNCHANGED <<task, file, analysis_prompt, audio_path, attempt, retry_delay, calls, sleeps, last, language>>

\* the end of analyze_video, on what analyze_with_claude returned
VideoReturn(analysis) ==
  IF Falsy(analysis)
    THEN Finish([error |-> <<"Failed to analyze content">>], "ANALYSIS_FAILED")
    ELSE Finish([success |-> TRUE, analysis |-> analysis], "RETURNED")

\* video: analyze_with_claude and the return of analyze_video
CompleteVideo(resp) ==
  /\ pc = "AWAITING_COMPLETION"
  /\ task = "video"
  /\ calls' = Append(calls, Call("analysis", resp, TransportOrBody(resp)))
  /\ last' = resp
  /\ VideoReturn(VideoAnalysis(resp))
  /\ UNCHANGED <<task, file, analysis_prompt, audio_path, transcription, attempt, retry_delay, sleeps, language>>

\* --- chat: ClaudeService.get_response -----------------------------------
ChatConversations ==
  {<<>>,
   <<[role |-> "system", content |-> "You are a friendly chatbot."]>>,
   <<[role |-> "user", content |-> "Hola"]>>,
   <<[role |-> "system", content |-> "You are a friendly chatbot."],
     [role |-> "user", content |-> "Hola"],
     [role |-> "assistant", content |-> "Hola, soy Flooky."],
     [role |-> "user", content |-> "Gracias"]>>}

ChatResponses ==
  FailureResponses
  \cup {Resp200(<<TextItem(<<Prose("Hola, soy Flooky.")>>)>>), Resp200(<<>>)}

\* what get_response returns once the request was answered: always a string
ChatReply(resp) ==
  IF resp.kind = "exception"
    THEN <<"Lo siento, estoy teniendo problemas técnicos. ", "Error: ">> \o resp.msg
  ELSE IF resp.status # 200
    THEN <<"Error: API request failed with status ", ToString(resp.status),
           ". Details: ">> \o resp.text
  ELSE IF ~resp.json.ok
    THEN <<"Lo siento, estoy teniendo problemas técnicos. ", "Error: ">> \o resp.json.msg
  ELSE JoinText(resp.json.v)

\* get_response: the greeting when the conversation has no user turn, else
\* one request and the string made of its answer; the chat route returns
\* the string as the message of its reply
GetResponse(conversation, resp) ==
  /\ pc = "START"
  /\ task = "chat"
  /\ IF \A i \in DOMAIN conversation : conversation[i].role # "user"
       THEN /\ Finish([message |-> <<"¡Hola! ¿En qué puedo ayudarte hoy?">>], "RETURNED")
            /\ UNCHANGED <<calls, last>>
       ELSE /\ calls' = Append(calls, Call("chat", resp, TransportOrBody(resp)))
            /\ last' = resp
            /\ Finish([message |-> ChatReply(resp)],
                      IF resp.kind = "http" /\ resp.status = 200 /\ resp.json.ok
                        THEN "RETURNED" ELSE "API_FAILED")
  /\ UNCHANGED <<task, file, analysis_prompt, audio_path, transcription, attempt,
                 retry_delay, sleeps, language>>

Next ==
  \/ \E read \in ReaderOutcomes : Extract(read) /\ UNCHANGED <<storeVars, pairVars>>
  \/ \E resp \in Responses(task) : CompleteWithRetry(resp) /\ UNCHANGED <<storeVars, pairVars>>
  \/ Backoff /\ UNCHANGED <<storeVars, pairVars>>
  \/ \E resp \in LanguageResponses : DetectLanguage(resp) /\ UNCHANGED <<storeVars, pairVars>>
  \/ \E resp \in Responses(task) : CompleteBill(resp) /\ UNCHANGED <<storeVars, pairVars>>
  \/ \E job_role \in {"", "Backend engineer"}, named \in BOOLEAN :
       CvStart(job_role, named) /\ UNCHANGED <<storeVars, pairVars>>
  \/ \E resp \in Responses(task) : CompleteCv(resp) /\ UNCHANGED <<storeVars, pairVars>>
  \/ \E downloaded \in {"None", "/tmp/x/video.wav"} :
       Download(downloaded) /\ UNCHANGED <<storeVars, pairVars>>
  \/ \E transcribed \in {"None", "", "The earth is round."} :
       Transcribe(transcribed) /\ UNCHANGED <<storeVars, pairVars>>
  \/ \E resp \in Responses(task) : CompleteVideo(resp) /\ UNCHANGED <<storeVars, pairVars>>
  \/ \E conversation \in ChatConversations, resp \in ChatResponses :
       GetResponse(conversation, resp) /\ UNCHANGED <<storeVars, pairVars>>

Spec == Init /\ [][Next]_vars

\* ------------------------------------------------------------------------
\* Two requests served at once: each handler runs on its own thread, with
\* its own locals. The variables of the pipeline hold the locals of the
\* request whose thread runs, peer holds those of the other request.
\* ------------------------------------------------------------------------
\* the locals of the running request
Self ==
  [task |-> task, file |-> file, pc |-> pc, attempt |-> attempt,
   retry_delay |-> retry_delay, calls |-> calls, sleeps |-> sleeps, last |-> last,
   language |-> language, analysis_prompt |-> analysis_prompt,
   audio_path |-> audio_path, transcription |-> transcription,
   outcome |-> outcome, result |-> result]

\* a request that has not started
Fresh(t, f) ==
  [task |-> t, file |-> f, pc |-> "START", attempt |-> 0, retry_delay |-> 0,
   calls |-> <<>>, sleeps |-> <<>>, last |-> NoResponse, language |-> <<>>,
   analysis_prompt |-> "unset", audio_path |-> "unset", transcription |-> "unset",
   outcome |-> "NONE", result |-> <<>>]

\* Switch with attempt and retry_delay kept on the processor object that
\* the two requests share, instead of in the locals of each
SwitchSharedRetryState ==
  /\ peer # NoPeer
  /\ peer' = Self
  /\ running' = 3 - running
  /\ task' = peer.task
  /\ file' = peer.file
  /\ pc' = peer.pc
  /\ calls' = peer.calls
  /\ sleeps' = peer.sleeps
  /\ last' = peer.last
  /\ language' = peer.language
  /\ analysis_prompt' = peer.analysis_prompt
  /\ audio_path' = peer.audio_path
  /\ transcription' = peer.transcription
  /\ outcome' = peer.outcome
  /\ result' = peer.result
  /\ UNCHANGED <<attempt, retry_delay>>
  /\ UNCHANGED storeVars

\* the thread of the other request is scheduled
Switch ==
  /\ peer # NoPeer
  /\ peer' = Self
  /\ running' = 3 - running
  /\ task' = peer.task
  /\ file' = peer.file
  /\ pc' = peer.pc
  /\ attempt' = peer.attempt
  /\ retry_delay' = peer.retry_delay
  /\ calls' = peer.calls
  /\ sleeps' = peer.sleeps
  /\ last' = peer.last
  /\ language' = peer.language
  /\ analysis_prompt' = peer.analysis_prompt
  /\ audio_path' = peer.audio_path
  /\ transcription' = peer.transcription
  /\ outcome' = peer.outcome
  /\ result' = peer.result
  /\ UNCHANGED storeVars

\* the answers the two requests receive
PairResponses ==
  {RespStatus(529, <<"{\"type\":\"error\",\"error\":{\"type\":\"", "overloaded", "_error\"}}">>),
   RespStatus(500, <<"Internal server error">>),
   Transport(<<"Proxy: upstream ", "Overloaded">>),
   Resp200(<<TextItem(<<ObjText(EmptyDict)>>)>>)}

PairInit ==
  /\ task \in RetryTasks
  /\ file = ".pdf"
  /\ Unstarted
  /\ StoreUnused
  /\ running = 1
  /\ peer \in {Fresh(t, ".pdf") : t \in RetryTasks}

PairNext ==
  \/ \E read \in ReaderOutcomes : Extract(read) /\ UNCHANGED <<storeVars, pairVars>>
  \/ \E resp \in PairResponses : CompleteWithRetry(resp) /\ UNCHANGED <<storeVars, pairVars>>
  \/ Backoff /\ UNCHANGED <<storeVars, pairVars>>
  \/ Switch

PairSpec == PairInit /\ [][PairNext]_vars

\* ------------------------------------------------------------------------
\* Conversation Store (ConversationManager). The server handles requests in
\* threads, and the store takes no lock: a store call is a sequence of
\* steps, one per access to the shared dict or to a shared list, and the
\* steps of different threads interleave. A list is an object: the dict
\* holds its identity, and so does the local 'conversation' of add_message.
\* The timestamp of a turn is not kept: no operation reads it.
\* ------------------------------------------------------------------------
MAX_CONVERSATION_HISTORY == 2

max_history == MAX_CONVERSATION_HISTORY

\* how many store calls the one thread of StoreSpec makes
MaxCalls == 5

Roles == {"user", "assistant", "system"}

\* system_message of create_conversation: "" stands for None and for ''
SystemMessages == {"", "You are a friendly chatbot."}

Turn(role, content) == [role |-> role, content |-> content]

\* the message text of the k-th call of thread t
Content(t, k) == "m" \o ToString(10 * t + k)

\* the list create_conversation builds
NewConversation(system_message) ==
  IF system_message # "" THEN <<Turn("system", system_message)>> ELSE <<>>

\* conversation[-n:]
LastTurns(conversation, n) ==
  IF n = 0 \/ n >= Len(conversation)
    THEN conversation
    ELSE SubSeq(conversation, Len(conversation) - n + 1, Len(conversation))

\* Trimmed that evicts the turn at index 0 like any other
TrimmedNoPin(conversation) ==
  IF Len(conversation) > max_history + 1
    THEN LastTurns(conversation, max_history + 1)
    ELSE conversation

\* Trimmed that keeps one turn more than max_history
TrimmedOneMore(conversation) ==
  IF Len(conversation) > max_history + 1
    THEN IF conversation[1].role = "system"
           THEN <<conversation[1]>> \o LastTurns(conversation, max_history + 1)
           ELSE LastTurns(conversation, max_history + 1)
    ELSE conversation

\* the list add_message leaves in the dict for a list of this content
Trimmed(conversation) ==
  IF Len(conversation) > max_history + 1
    THEN IF conversation[1].role = "system"
           THEN <<conversation[1]>> \o LastTurns(conversation, max_history)
           ELSE LastTurns(conversation, max_history)
    ELSE conversation

\* add_message run alone on a history (<<>> when the user has none)
AddMessageAlone(conversation, turn) == Trimmed(Append(conversation, turn))

\* --- objects ---------------------------------------------------------------
\* the identity a new list gets: the lowest one that no list has
NewList(ls) ==
  CHOOSE i \in 1..(Cardinality(DOMAIN ls) + 1) :
    i \notin DOMAIN ls /\ \A j \in 1..(i - 1) : j \in DOMAIN ls

\* the lists that the dict or a local still refers to
Referenced(ls, convs, ths) ==
  [i \in DOMAIN ls \cap ({convs[u] : u \in DOMAIN convs}
                         \cup {ths[t].conversation : t \in Threads}) |-> ls[i]]

\* self.conversations[user_id] = <list>
Bound(convs, user_id, id) == (user_id :> id) @@ convs

\* del self.conversations[user_id]
Unbound(convs, user_id) == [u \in DOMAIN convs \ {user_id} |-> convs[u]]

\* the history stored for a user: <<turns>>, or <<>> when the user has none
Stored(u) == IF u \in DOMAIN conversations THEN <<lists[conversations[u]]>> ELSE <<>>

\* --- steps -----------------------------------------------------------------
\* thread t starts a call
Enter(t, op, user_id, role, content, at) ==
  /\ th[t].pc = "idle"
  /\ budget[t] > 0
  /\ budget' = [budget EXCEPT ![t] = @ - 1]
  /\ th' = [th EXCEPT ![t] = [pc |-> at, op |-> op, user_id |-> user_id, role |-> role,
                              content |-> content, conversation |-> 0, ret |-> "none"]]

\* thread t leaves its call, returning or raising ret
Leave(t, ret) ==
  th' = [th EXCEPT ![t] = [@ EXCEPT !.pc = "idle", !.conversation = 0, !.ret = ret]]

Goto(t, at) == th' = [th EXCEPT ![t] = [@ EXCEPT !.pc = at]]

\* the dict gets a new list for the user
Install(user_id, turns) ==
  /\ conversations' = Bound(conversations, user_id, NewList(lists))
  /\ lists' = Referenced((NewList(lists) :> turns) @@ lists, conversations', th')

\* create_conversation: the list is built locally, then stored in the dict
CreateConversation(t, user_id, system_message) ==
  /\ Enter(t, "create", user_id, "", system_message, "idle")
  /\ Install(user_id, NewConversation(system_message))
  /\ ledger' = [ledger EXCEPT ![user_id] =
                  [created |-> NewConversation(system_message), appended |-> <<>>,
                   trimmed |-> FALSE]]
  /\ UNCHANGED start

\* add_message, line 62: user_id not in self.conversations
AddMessageCheck(t, user_id, role) ==
  /\ Enter(t, "add", user_id, role, Content(t, budget[t]),
           IF user_id \notin DOMAIN conversations THEN "add_63" ELSE "add_66")
  /\ UNCHANGED <<conversations, lists, start, ledger>>

\* add_message, line 63: self.create_conversation(user_id)
AddMessageCreate(t) ==
  /\ th[t].pc = "add_63"
  /\ Goto(t, "add_66")
  /\ Install(th[t].user_id, NewConversation(""))
  /\ ledger' = [ledger EXCEPT ![th[t].user_id] =
                  [created |-> <<>>, appended |-> <<>>, trimmed |-> FALSE]]
  /\ UNCHANGED <<budget, start>>

\* add_message, line 66: self.conversations[user_id]
AddMessageLookup(t) ==
  /\ th[t].pc = "add_66"
  /\ IF th[t].user_id \in DOMAIN conversations
       THEN th' = [th EXCEPT ![t] = [@ EXCEPT !.pc = "add_66_append",
                                       !.conversation = conversations[th[t].user_id]]]
       ELSE Leave(t, "KeyError")
  /\ UNCHANGED <<conversations, lists, budget, start, ledger>>

\* add_message, line 66: .append({...}) on the list looked up
AddMessageAppend(t) ==
  /\ th[t].pc = "add_66_append"
  /\ th' = [th EXCEPT ![t] = [@ EXCEPT !.pc = "add_73", !.conversation = 0]]
  /\ lists' = Referenced([lists EXCEPT ![th[t].conversation] =
                            Append(@, Turn(th[t].role, th[t].content))],
                         conversations, th')
  /\ ledger' = [ledger EXCEPT ![th[t].user_id].appended =
                  Append(@, Turn(th[t].role, th[t].content))]
  /\ UNCHANGED <<conversations, budget, start>>

\* add_message, line 73: conversation = self.conversations[user_id]
AddMessageRead(t) ==
  /\ th[t].pc = "add_73"
  /\ IF th[t].user_id \in DOMAIN conversations
       THEN th' = [th EXCEPT ![t] = [@ EXCEPT !.pc = "add_74",
                                       !.conversation = conversations[th[t].user_id]]]
       ELSE Leave(t, "KeyError")
  /\ UNCHANGED <<conversations, lists, budget, start, ledger>>

\* add_message, lines 74-79: the length test, and the new list stored
AddMessageTrim(t) ==
  /\ th[t].pc = "add_74"
  /\ th' = [th EXCEPT ![t] = [@ EXCEPT !.pc = "add_81", !.conversation = 0]]
  /\ IF Len(lists[th[t].conversation]) > max_history + 1
       THEN /\ Install(th[t].user_id, Trimmed(lists[th[t].conversation]))
            /\ ledger' = [ledger EXCEPT ![th[t].user_id].trimmed = TRUE]
       ELSE /\ lists' = Referenced(lists, conversations, th')
            /\ UNCHANGED <<conversations, ledger>>
  /\ UNCHANGED <<budget, start>>

\* add_message, line 81: return self.conversations[user_id]
AddMessageReturn(t) ==
  /\ th[t].pc = "add_81"
  /\ Leave(t, IF th[t].user_id \in DOMAIN conversations THEN "list" ELSE "KeyError")
  /\ UNCHANGED <<conversations, lists, budget, start, ledger>>

\* delete_conversation, line 93: user_id in self.conversations
DeleteCheck(t, user_id) ==
  /\ Enter(t, "delete", user_id, "", "",
           IF user_id \in DOMAIN conversations THEN "delete_94" ELSE "idle")
  /\ UNCHANGED <<conversations, lists, start, ledger>>

\* DeleteDel that empties the dict
DeleteEverything(t) ==
  /\ th[t].pc = "delete_94"
  /\ Leave(t, "True")
  /\ conversations' = <<>>
  /\ lists' = Referenced(lists, conversations', th')
  /\ ledger' = [u \in SessionIds |-> NoLedger]
  /\ UNCHANGED <<budget, start>>

\* delete_conversation, lines 94-95: del self.conversations[user_id]
DeleteDel(t) ==
  /\ th[t].pc = "delete_94"
  /\ IF th[t].user_id \in DOMAIN conversations
       THEN /\ Leave(t, "True")
            /\ conversations' = Unbound(conversations, th[t].user_id)
            /\ lists' = Referenced(lists, conversations', th')
            /\ ledger' = [ledger EXCEPT ![th[t].user_id] = NoLedger]
       ELSE /\ Leave(t, "KeyError")
            /\ UNCHANGED <<conversations, lists, ledger>>
  /\ UNCHANGED <<budget, start>>

StoreNext ==
  \/ \E t \in Threads, u \in SessionIds, sm \in SystemMessages :
       CreateConversation(t, u, sm) /\ UNCHANGED <<pipelineVars, pairVars>>
  \/ \E t \in Threads, u \in SessionIds, role \in Roles :
       AddMessageCheck(t, u, role) /\ UNCHANGED <<pipelineVars, pairVars>>
  \/ \E t \in Threads : AddMessageCreate(t) /\ UNCHANGED <<pipelineVars, pairVars>>
  \/ \E t \in Threads : AddMessageLookup(t) /\ UNCHANGED <<pipelineVars, pairVars>>
  \/ \E t \in Threads : AddMessageAppend(t) /\ UNCHANGED <<pipelineVars, pairVars>>
  \/ \E t \in Threads : AddMessageRead(t) /\ UNCHANGED <<pipelineVars, pairVars>>
  \/ \E t \in Threads : AddMessageTrim(t) /\ UNCHANGED <<pipelineVars, pairVars>>
  \/ \E t \in Threads : AddMessageReturn(t) /\ UNCHANGED <<pipelineVars, pairVars>>
  \/ \E t \in Threads, u \in SessionIds : DeleteCheck(t, u) /\ UNCHANGED <<pipelineVars, pairVars>>
  \/ \E t \in Threads : DeleteDel(t) /\ UNCHANGED <<pipelineVars, pairVars>>

\* a chat request: none of the task pipelines runs
ChatRequest ==
  /\ task = "chat"
  /\ file = ""
  /\ Unstarted
  /\ PeerUnused

\* the store of a new process, and one thread that makes MaxCalls calls
StoreInit ==
  /\ ChatRequest
  /\ conversations = <<>>
  /\ lists = <<>>
  /\ th = [t \in Threads |-> IdleThread]
  /\ budget = [t \in Threads |-> IF t = 1 THEN MaxCalls ELSE 0]
  /\ start = <<>>
  /\ ledger = [u \in SessionIds |-> NoLedger]

StoreSpec == StoreInit /\ [][StoreNext]_vars

\* --- two threads, one call each ---------------------------------------------
\* histories the store can hold when two requests arrive together: none;
\* new conversations; a conversation at the cap; one above the cap by one
Filled(n) == [i \in 1..n |-> Turn(IF i % 2 = 1 THEN "user" ELSE "assistant", "m" \o ToString(i))]

StartHistories ==
  {<<>>,
   [u \in SessionIds |-> NewConversation("You are a friendly chatbot.")],
   [u \in SessionIds |->
      IF u = "u1" THEN NewConversation("You are a friendly chatbot.") \o Filled(max_history)
      ELSE Filled(1)],
   [u \in {"u1"} |-> Filled(max_history + 1)]}

\* list identities for the histories, one per user
Identity(u) == IF u = "u1" THEN 1 ELSE 2

StoreRaceInit ==
  /\ ChatRequest
  /\ start \in StartHistories
  /\ conversations = [u \in DOMAIN start |-> Identity(u)]
  /\ lists = [i \in {Identity(u) : u \in DOMAIN start} |->
                start[CHOOSE u \in DOMAIN start : Identity(u) = i]]
  /\ th = [t \in Threads |-> IdleThread]
  /\ budget = [t \in Threads |-> 1]
  /\ ledger = [u \in SessionIds |->
                 IF u \notin DOMAIN start THEN NoLedger
                 ELSE IF Len(start[u]) > 0 /\ start[u][1].role = "system"
                   THEN [created |-> <<start[u][1]>>, appended |-> Tail(start[u]),
                         trimmed |-> FALSE]
                   ELSE [created |-> <<>>, appended |-> start[u], trimmed |-> FALSE]]

StoreRaceSpec == StoreRaceInit /\ [][StoreNext]_vars

\* ------------------------------------------------------------------------
\* Vocabulary of the properties
\* ------------------------------------------------------------------------
Done == pc = "DONE"

IsSuccess(r) == "success" \in DOMAIN r /\ r.success = TRUE

StatusesAre(sts) ==
  Len(calls) = Len(sts) /\ \A i \in 1..Len(sts) : calls[i].status = sts[i]

StatusesBegin(sts) ==
  Len(calls) >= Len(sts) /\ \A i \in 1..Len(sts) : calls[i].status = sts[i]

\* the last request was the analysis request of the pipeline
AnalysisAnswered == Len(calls) > 0 /\ calls[Len(calls)].req = "analysis"

\* a 200 answer with a readable body
Is200(resp) == resp.kind = "http" /\ resp.status = 200 /\ resp.json.ok

ReplyText(resp) == JoinText(resp.json.v)

\* a JSON object is extracted from the reply text and parsed
ReplyParses(resp) ==
  /\ Is200(resp)
  /\ JsonMatch(ReplyText(resp)) # <<>>
  /\ JsonLoads(JsonMatch(ReplyText(resp))).ok

\* a 200 answer whose text has no '{'...'}' span, or a span that is not JSON
ReplyMisses(resp) == Is200(resp) /\ ~ReplyParses(resp)

ReplyObject(resp) == JsonLoads(JsonMatch(ReplyText(resp))).v

\* the reply object has risk_assessment.safety_percentage
HasSafety(obj) ==
  /\ "risk_assessment" \in DOMAIN obj.o
  /\ obj.o["risk_assessment"].k = "obj"
  /\ "safety_percentage" \in DOMAIN obj.o["risk_assessment"].o

\* no risk_assessment at all, or one without safety_percentage
SafetyAbsent(obj) ==
  \/ "risk_assessment" \notin DOMAIN obj.o
  \/ /\ obj.o["risk_assessment"].k = "obj"
     /\ "safety_percentage" \notin DOMAIN obj.o["risk_assessment"].o

SafetyOf(obj) == obj.o["risk_assessment"].o["safety_percentage"]

IsInteger(v) == v.k = "num" /\ v.isint

IntOf(v) == v.c \div 100

ResultSafety == result.data.risk_assessment.safety_percentage

\* ------------------------------------------------------------------------
\* C1: contract and financial pipelines: 529, 529, then 200 means exactly
\* three requests, sleeps of 2 and then 4, and the third reply's parse
\* result (normalized or fallback) returned with success true.
\* ------------------------------------------------------------------------
C1_TwoOverloadsThenSuccess ==
  (task \in RetryTasks /\ StatusesBegin(<<529, 529, 200>>)) =>
    /\ Len(calls) = 3
    /\ sleeps = <<2, 4>>
    /\ Done
    /\ (Is200(last) /\ ParseClaudeResponse(task, ReplyText(last), <<>>).ok) =>
         /\ IsSuccess(result)
         /\ result.data = ParseClaudeResponse(task, ReplyText(last), <<>>).v
         /\ outcome \in {"NORMALIZED", "FALLBACK"}

C1_Witness ==
  /\ Done /\ task = "contract" /\ StatusesAre(<<529, 529, 200>>)
  /\ sleeps = <<2, 4>>
  /\ IsSuccess(result) /\ outcome = "NORMALIZED"
  /\ result.data.contract_title = JStr("NDA")

\* ------------------------------------------------------------------------
\* C2: contract and financial pipelines: 529 on every attempt means
\* exactly three requests, sleeps 2 and 4 and none after the third, and a
\* result with success false whose error says the API is overloaded.
\* ------------------------------------------------------------------------
C2_AlwaysOverloadedFails ==
  /\ task \in RetryTasks => Len(calls) <= 3
  /\ (task \in RetryTasks /\ StatusesBegin(<<529, 529, 529>>)) =>
       /\ Len(calls) = 3
       /\ sleeps = <<2, 4>>
       /\ Done
       /\ DOMAIN result = {"success", "error"}
       /\ result.success = FALSE
       /\ Contains(Lower(result.error), "overloaded")
       /\ outcome = "API_FAILED"

C2_Witness ==
  /\ Done /\ task = "financial" /\ StatusesAre(<<529, 529, 529>>)
  /\ sleeps = <<2, 4>>
  /\ result.success = FALSE

\* ------------------------------------------------------------------------
\* C3: contract and financial pipelines: an attempt that fails otherwise
\* than by a 529 answer.
\* ------------------------------------------------------------------------
\* the i-th attempt ended with a failure other than HTTP 529: a transport
\* exception, another non-200 status, or an exception on a 200 reply
FailedNot529(i) == calls[i].status # 529 /\ calls[i].raised # <<>>

\* nothing follows the i-th attempt: no request, no sleep, an error result
Surfaced(i) ==
  /\ i = Len(calls)
  /\ Len(sleeps) = i - 1
  /\ Done
  /\ result.success = FALSE

C4_NormalizationMissFallsBack ==
  (task \in ProcessorTasks /\ AnalysisAnswered /\ ReplyMisses(last)) =>
    /\ Done
    /\ outcome = "FALLBACK"
    /\ DOMAIN result = {"success", "data"}
    /\ result.success = TRUE
    /\ result.data = Fallback(task, ReplyText(last), language)
    /\ result.data.raw_response = ReplyText(last)

C4_Witness ==
  /\ Done /\ task = "bill" /\ AnalysisAnswered
  /\ Is200(last)
  /\ ReplyText(last) = <<LBrace, Prose("not json"), RBrace>>
  /\ outcome = "FALLBACK"
  /\ IsSuccess(result)

\* ------------------------------------------------------------------------
\* C5: bill, contract and financial pipelines: every reply from which a
\* JSON object is extracted and parsed ends NORMALIZED with success true,
\* whatever the object's field values are.
\* ------------------------------------------------------------------------
C5_ParsedReplyNormalizes ==
  (task \in ProcessorTasks /\ Done /\ AnalysisAnswered /\ ReplyParses(last)) =>
    /\ outcome = "NORMALIZED"
    /\ IsSuccess(result)

\* ------------------------------------------------------------------------
\* C6: process_bill, process_contract and process_financial_data never
\* raise; they return success with data and no error, or no success with
\* error and no data.
\* ------------------------------------------------------------------------
C6_ResultShape ==
  (task \in ProcessorTasks /\ Done) =>
    /\ "success" \in DOMAIN result
    /\ result.success \in BOOLEAN
    /\ result.success =>
         DOMAIN result = {"success", "data"} /\ outcome \in {"NORMALIZED", "FALLBACK"}
    /\ ~result.success =>
         DOMAIN result = {"success", "error"}
         /\ outcome \in {"EXTRACTION_FAILED", "API_FAILED"}

C6_Witness ==
  /\ Done /\ task = "bill" /\ AnalysisAnswered
  /\ calls[Len(calls)].raised # <<>>
  /\ DOMAIN result = {"success", "error"}
  /\ result.success = FALSE

\* ------------------------------------------------------------------------
\* C7: every task pipeline (bill, contract, financial, CV, video; chat is
\* no task pipeline): a completion call that ends with a non-200 status
\* other than 529, or with a transport error, gives the caller an error
\* result that carries the upstream detail, never a success result.
\* ------------------------------------------------------------------------
FailedCall(resp) ==
  \/ resp.kind = "exception"
  \/ resp.kind = "http" /\ resp.status \notin {200, 529}

UpstreamDetail(resp) ==
  IF resp.kind = "exception" THEN resp.msg[Len(resp.msg)] ELSE ToString(resp.status)

C7_ApiFailureIsError ==
  (task # "chat" /\ Done /\ Len(calls) > 0 /\ FailedCall(last)) =>
    /\ ~IsSuccess(result)
    /\ "error" \in DOMAIN result
    /\ Contains(result.error, UpstreamDetail(last))

\* ------------------------------------------------------------------------
\* C8: video pipeline: a 200 reply from which no JSON object can be
\* extracted or parsed gives a success result, not an error.
\* ------------------------------------------------------------------------
C8_VideoMissRecovered ==
  (task = "video" /\ Done /\ Len(calls) > 0 /\ ReplyMisses(last)) =>
    /\ IsSuccess(result)
    /\ "error" \notin DOMAIN result

\* ------------------------------------------------------------------------
\* C9: contract pipeline: every success result has
\* data.risk_assessment.safety_percentage in 0..100; on the normalized
\* path an integer above 100 gives 100, one below 0 gives 0, one in range
\* is kept, and an absent value gives 50.
\* ------------------------------------------------------------------------
C9_SafetyClamped ==
  (task = "contract" /\ Done /\ IsSuccess(result)
     /\ outcome \in {"NORMALIZED", "FALLBACK"}) =>
    /\ ResultSafety \in 0..100
    /\ outcome = "FALLBACK" => ResultSafety = 50
    /\ (outcome = "NORMALIZED" /\ SafetyAbsent(ReplyObject(last))) => ResultSafety = 50
    /\ (outcome = "NORMALIZED" /\ HasSafety(ReplyObject(last))
          /\ IsInteger(SafetyOf(ReplyObject(last)))) =>
         ResultSafety =
           IF IntOf(SafetyOf(ReplyObject(last))) > 100 THEN 100
           ELSE IF IntOf(SafetyOf(ReplyObject(last))) < 0 THEN 0
           ELSE IntOf(SafetyOf(ReplyObject(last)))

C9_Witness ==
  /\ Done /\ task = "contract" /\ IsSuccess(result) /\ outcome = "NORMALIZED"
  /\ HasSafety(ReplyObject(last))
  /\ SafetyOf(ReplyObject(last)) = JInt(-5)
  /\ ResultSafety = 0

\* ------------------------------------------------------------------------
\* C10: contract normalizer: a safety_percentage that is present but not
\* numeric (a word, null) becomes the default 50 and the pipeline returns
\* success true.
\* ------------------------------------------------------------------------
NonNumeric(v) ==
  \/ v.k = "null"
  \/ v.k = "str" /\ v.s \notin DOMAIN FloatLiteral

C10_NonNumericSafetyDefaults ==
  (task = "contract" /\ Done /\ AnalysisAnswered /\ ReplyParses(last)
     /\ HasSafety(ReplyObject(last)) /\ NonNumeric(SafetyOf(ReplyObject(last)))) =>
    /\ IsSuccess(result)
    /\ outcome = "NORMALIZED"
    /\ ResultSafety = 50

\* ------------------------------------------------------------------------
\* C11: bill normalizer: a reply whose 'total' is absent or is not a number
\* gets the sum of the normalized items' amounts as total; a numeric
\* 'total' is used as given.
\* ------------------------------------------------------------------------
\* float() accepts the reply's total
TotalNumeric(obj) == "total" \in DOMAIN obj.o /\ PyFloat(obj.o["total"]).ok

C11_TotalIsSumWhenNotNumeric ==
  (task = "bill" /\ Done /\ AnalysisAnswered /\ ReplyParses(last)
     /\ outcome = "NORMALIZED") =>
    IF TotalNumeric(ReplyObject(last))
      THEN result.data.total = PyFloat(ReplyObject(last).o["total"]).v
      ELSE result.data.total = SumAmounts(result.data.items)

\* ------------------------------------------------------------------------
\* C12: bill, contract and financial: a reply text in which no '{' is
\* followed later by a '}' gives the fallback result, whose raw_response is
\* the reply text unchanged; a normalized result has no raw_response.
\* ------------------------------------------------------------------------
\* no '{' of the text is followed by a '}'
NoBracePair(text) ==
  /\ \A i \in 1..Len(text) : text[i].t # "json"
  /\ \A i, j \in 1..Len(text) : (i < j) => ~(HasOpen(text[i]) /\ HasClose(text[j]))

C12_RawResponseKept ==
  /\ (task \in ProcessorTasks /\ AnalysisAnswered /\ Is200(last)
        /\ NoBracePair(ReplyText(last))) =>
       /\ Done
       /\ outcome = "FALLBACK"
       /\ IsSuccess(result)
       /\ "raw_response" \in DOMAIN result.data
       /\ result.data.raw_response = ReplyText(last)
  /\ (task \in ProcessorTasks /\ Done /\ outcome = "NORMALIZED") =>
       "raw_response" \notin DOMAIN result.data

C12_Witness ==
  /\ Done /\ task = "financial" /\ AnalysisAnswered /\ Is200(last)
  /\ ReplyText(last) = <<RBrace, Prose("then"), LBrace>>
  /\ outcome = "FALLBACK"
  /\ result.data.raw_response = <<RBrace, Prose("then"), LBrace>>

\* ------------------------------------------------------------------------
\* C13: the fallback result of every task (bill in both languages,
\* contract, financial), for every reply, has every field of the task's
\* schema, safety_percentage 50 and bill total 0, and every list empty.
\* ------------------------------------------------------------------------
C13_FallbackConformsToSchema ==
  (task \in ProcessorTasks /\ Done /\ outcome = "FALLBACK") =>
    /\ SchemaFields(task) \subseteq DOMAIN result.data
    /\ task = "contract" =>
         /\ DOMAIN result.data.parties = {"party1", "party2", "relationship"}
         /\ DOMAIN result.data.risk_assessment =
              {"safety_percentage", "risk_level", "scam_likelihood", "explanation"}
         /\ result.data.risk_assessment.safety_percentage = 50
         /\ \A f \in {"legal_terms_simplified", "risky_parts", "missing_clauses",
                      "recommended_changes"} : result.data[f] = EmptyList
    /\ task = "bill" =>
         /\ result.data.total = 0
         /\ result.data.items = <<>>
    /\ task = "financial" =>
         /\ \A f \in {"spending_breakdown", "income_sources", "income_optimization"} :
              result.data[f] = EmptyList
         /\ \A f \in {"financial_habits", "recommendations", "action_plan"} :
              \A g \in DOMAIN result.data[f].o : result.data[f].o[g] = EmptyList

C13_Witness ==
  /\ Done /\ task = "bill" /\ outcome = "FALLBACK"
  /\ Lower(language) = <<"spanish">>
  /\ result.data.currency = JStr("EUR")
  /\ result.data.total = 0
  /\ ReplyText(last) = <<LBrace, Prose("not json"), RBrace>>

\* ------------------------------------------------------------------------
\* C14: a reply text holding exactly one well-formed JSON object, whatever
\* prose surrounds it (prose with '{' or '}' included), has exactly that
\* object extracted and handed to the normalizer; the fallback path is not
\* taken.
\* ------------------------------------------------------------------------
\* the text holds exactly one serialized object
OneObject(text) == Cardinality({i \in 1..Len(text) : text[i].t = "json"}) = 1

ObjectAt(text) == CHOOSE i \in 1..Len(text) : text[i].t = "json"

TheObject(text) == text[ObjectAt(text)].o

\* some '{' of the prose precedes the object, or some '}' of it follows
SpanWidened(text) ==
  \/ \E i \in 1..(ObjectAt(text) - 1) : HasOpen(text[i])
  \/ \E i \in (ObjectAt(text) + 1)..Len(text) : HasClose(text[i])

\* the object was handed to the task's normalizer, and what the normalizer
\* returned or raised is what the pipeline returned
NormalizerGot(obj) ==
  /\ outcome # "FALLBACK"
  /\ IF Validate(task, obj, language).ok
       THEN /\ outcome = "NORMALIZED"
            /\ IsSuccess(result)
            /\ result.data = Validate(task, obj, language).v
       ELSE /\ outcome = "API_FAILED"
            /\ result = [success |-> FALSE,
                         error |-> <<FailurePrefix(task)>> \o Validate(task, obj, language).msg]

C14_Original ==
  (task \in ProcessorTasks /\ Done /\ AnalysisAnswered /\ Is200(last)
     /\ OneObject(ReplyText(last))) =>
    /\ ReplyParses(last)
    /\ ReplyObject(last) = TheObject(ReplyText(last))
    /\ NormalizerGot(TheObject(ReplyText(last)))

\* C14 as the code has it: the object is extracted when the prose has no
\* '{' before it and no '}' after it; otherwise the span from the first '{'
\* to the last '}' is not JSON and the fallback path is taken.
C14_SingleObjectExtracted ==
  (task \in ProcessorTasks /\ Done /\ AnalysisAnswered /\ Is200(last)
     /\ OneObject(ReplyText(last))) =>
    IF SpanWidened(ReplyText(last))
      THEN /\ ~ReplyParses(last)
           /\ outcome = "FALLBACK"
           /\ result.data.raw_response = ReplyText(last)
      ELSE /\ ReplyParses(last)
           /\ ReplyObject(last) = TheObject(ReplyText(last))
           /\ NormalizerGot(TheObject(ReplyText(last)))

C14_Witness ==
  /\ Done /\ task = "contract" /\ AnalysisAnswered /\ Is200(last)
  /\ Len(ReplyText(last)) = 5
  /\ ReplyText(last)[1] = RBrace
  /\ ReplyText(last)[5] = LBrace
  /\ ReplyText(last)[3] = ObjText(JObj([contract_title |-> JStr("NDA"), parties |-> Parties,
                                        risk_assessment |-> Risk(JInt(85))]))
  /\ outcome = "NORMALIZED"
  /\ result.data.contract_title = JStr("NDA")

\* ------------------------------------------------------------------------
\* C15: the top-level fields of a normalized result are exactly the task's
\* schema fields (bill: with 'language'), whatever keys the parsed object
\* has; a key outside the schema does not appear in the result.
\* ------------------------------------------------------------------------
C15_FieldSetFixed ==
  (task \in ProcessorTasks /\ Done /\ outcome = "NORMALIZED") =>
    DOMAIN result.data = SchemaFields(task)

C15_Witness ==
  /\ Done /\ task = "bill" /\ AnalysisAnswered /\ ReplyParses(last)
  /\ outcome = "NORMALIZED"
  /\ "vendor" \in DOMAIN ReplyObject(last).o
  /\ "vendor" \notin DOMAIN result.data

\* ------------------------------------------------------------------------
\* C16: bill, contract and financial: when text extraction raises, or gives
\* empty or whitespace-only text, the pipeline ends in EXTRACTION_FAILED
\* with success false and an error message; no request is sent, nothing is
\* slept on or retried, and the pipeline takes no further step.
\* ------------------------------------------------------------------------
ExtractionFails(read) ==
  \/ ~ExtractText(task, file, read).ok
  \/ Strip(ExtractText(task, file, read).v) = <<>>

C16_ExtractionFailureIsFinal ==
  [][/\ \A read \in ReaderOutcomes :
          (Extract(read) /\ ExtractionFails(read)) =>
            /\ pc' = "DONE"
            /\ outcome' = "EXTRACTION_FAILED"
            /\ DOMAIN result' = {"success", "error"}
            /\ result'.success = FALSE
            /\ result'.error # <<>>
            /\ calls' = <<>>
            /\ sleeps' = <<>>
     /\ outcome # "EXTRACTION_FAILED"]_vars

C16_Witness ==
  /\ Done /\ task = "financial" /\ outcome = "EXTRACTION_FAILED"
  /\ result = [success |-> FALSE, error |-> <<"No data could be extracted from the file">>]
  /\ calls = <<>>

\* ------------------------------------------------------------------------
\* Vocabulary of the Conversation Store properties
\* ------------------------------------------------------------------------
\* no thread is inside a store call
Quiet == \A t \in Threads : th[t].pc = "idle"

\* every thread has made its calls and returned
Finished == Quiet /\ \A t \in Threads : budget[t] = 0

History(u) == lists[conversations[u]]

StartOf(u) == IF u \in DOMAIN start THEN start[u] ELSE <<>>

\* the turn the add_message call of thread t appends
TurnOf(t) == Turn(th[t].role, th[t].content)

\* ------------------------------------------------------------------------
\* C17: cap N = MAX_CONVERSATION_HISTORY: once an add_message call has
\* taken a history beyond the cap, after that call and after every later
\* call the history has exactly N+1 turns when it begins with a system
\* turn, and exactly N turns when it has no system turn.
\* ------------------------------------------------------------------------
C17_ExactlyCapTurns ==
  \A u \in SessionIds :
    (Quiet /\ u \in DOMAIN conversations /\ ledger[u].trimmed) =>
      /\ ledger[u].created # <<>> => Len(History(u)) = max_history + 1
      /\ (\A i \in 1..Len(History(u)) : History(u)[i].role # "system") =>
           Len(History(u)) = max_history

\* ------------------------------------------------------------------------
\* C18: a conversation created with a system message keeps that turn at
\* position 0 through any sequence of add_message calls, and the turns
\* after it are the most recently appended ones (at most N), in the order
\* they were appended.
\* ------------------------------------------------------------------------
C18_SystemTurnPinned ==
  \A u \in SessionIds :
    (Quiet /\ u \in DOMAIN conversations /\ ledger[u].created # <<>>) =>
      /\ History(u)[1] = ledger[u].created[1]
      /\ Tail(History(u)) =
           SubSeq(ledger[u].appended,
                  Len(ledger[u].appended) - Min(Len(ledger[u].appended), max_history) + 1,
                  Len(ledger[u].appended))

C18_Witness ==
  /\ Quiet
  /\ "u1" \in DOMAIN conversations
  /\ ledger["u1"].created = <<Turn("system", "You are a friendly chatbot.")>>
  /\ Len(ledger["u1"].appended) = max_history + 2
  /\ ledger["u1"].trimmed
  /\ History("u1")[1] = Turn("system", "You are a friendly chatbot.")
  /\ Len(History("u1")) = max_history + 1

\* ------------------------------------------------------------------------
\* C19: two add_message calls on one user_id that run concurrently leave
\* the history that one of the two serial orders leaves (no message is
\* lost that both orders keep), and the history does not end above the cap.
\* ------------------------------------------------------------------------
C19_AddMessageAtomic ==
  \A u \in SessionIds :
    (Finished /\ th[1].op = "add" /\ th[2].op = "add"
       /\ th[1].user_id = u /\ th[2].user_id = u) =>
      /\ u \in DOMAIN conversations
      /\ History(u) \in
           {AddMessageAlone(AddMessageAlone(StartOf(u), TurnOf(1)), TurnOf(2)),
            AddMessageAlone(AddMessageAlone(StartOf(u), TurnOf(2)), TurnOf(1))}
      /\ Len(History(u)) <= max_history + 1

\* ------------------------------------------------------------------------
\* C20: a step of create_conversation, add_message or delete_conversation
\* for one user_id leaves the stored history of every other user_id as it
\* was, however the calls of the threads interleave.
\* ------------------------------------------------------------------------
C20_OtherSessionsUntouched ==
  [][\A u \in SessionIds :
       (Stored(u)' # Stored(u)) =>
         \E t \in Threads : th'[t] # th[t] /\ th'[t].user_id = u]_vars

C20_Witness ==
  /\ Finished
  /\ th[1].op = "add" /\ th[1].user_id = "u1" /\ th[1].ret = "list"
  /\ th[2].op = "delete" /\ th[2].user_id = "u2" /\ th[2].ret = "True"
  /\ Len(StartOf("u1")) = max_history + 1
  /\ StartOf("u2") # <<>>
  /\ "u2" \notin DOMAIN conversations
  /\ Stored("u1") = <<AddMessageAlone(StartOf("u1"), TurnOf(1))>>

\* ------------------------------------------------------------------------
\* Two requests at once: the vocabulary of C21
\* ------------------------------------------------------------------------
Power2(n) == IF n = 0 THEN 1 ELSE IF n = 1 THEN 2 ELSE 4

\* the retry state of request r is what its own answers make it: the k-th
\* attempt follows k-1 sleeps of 2, 4 time units, whatever else ran
OwnRetryState(r) ==
  /\ Len(r.sleeps) <= max_retries - 1
  /\ \A i \in 1..Len(r.sleeps) : r.sleeps[i] = initial_retry_delay * Power2(i - 1)
  /\ (r.pc = "AWAITING_COMPLETION") =>
       /\ r.attempt = Len(r.calls)
       /\ r.attempt = Len(r.sleeps)
       /\ r.retry_delay = initial_retry_delay * Power2(r.attempt)
  /\ (r.pc = "DONE" /\ r.calls # <<>>) =>
       r.result = ProcessResult(Attempt(r.task, r.last, Len(r.calls) - 1))

\* ------------------------------------------------------------------------
\* C21: of two contract or financial requests served at the same time,
\* each starts at the first attempt with delay 2 and has the attempt count,
\* the delays and the result that its own answers give; a request that is
\* in its backoff sleep leaves the other one able to issue its request; and
\* a step of one request changes nothing of the other.
\* ------------------------------------------------------------------------
C21_RetryStatePrivate ==
  /\ [](OwnRetryState(Self) /\ OwnRetryState(peer))
  /\ []((peer.pc = "BACKOFF" /\ pc = "AWAITING_COMPLETION") =>
          ENABLED (\E resp \in PairResponses :
                     CompleteWithRetry(resp) /\ UNCHANGED <<storeVars, pairVars>>))
  /\ [][IF running' = running
          THEN peer' = peer
          ELSE peer' = Self /\ Self' = peer]_vars

C21_Witness ==
  /\ running = 2
  /\ pc = "DONE" /\ outcome = "NORMALIZED"
  /\ StatusesAre(<<529, 200>>)
  /\ sleeps = <<2>>
  /\ peer.pc = "BACKOFF"
  /\ peer.attempt = 1
  /\ peer.sleeps = <<2>>
  /\ peer.retry_delay = 4

\* ------------------------------------------------------------------------
\* C22: contract pipeline: a 200 reply from which a JSON object is
\* extracted, after a non-empty text extraction, gives success true, the
\* reply's contract_title as data.contract_title, and a safety_percentage
\* within 0..100.
\* ------------------------------------------------------------------------
C22_ContractEndToEnd ==
  (task = "contract" /\ Done /\ AnalysisAnswered /\ ReplyParses(last)) =>
    /\ IsSuccess(result)
    /\ ("contract_title" \in DOMAIN ReplyObject(last).o) =>
         result.data.contract_title = PyStr(ReplyObject(last).o["contract_title"])
    /\ ResultSafety \in 0..100

\* ------------------------------------------------------------------------
\* C23: bill, CV, video and chat have no retry: the completion request is
\* issued at most once and never followed by a sleep, and a 529 answer to
\* it gives the result that any other non-200 status gives, made of the
\* status and the body in the same way.
\* ------------------------------------------------------------------------
\* the requests other than the bill pipeline's language detection
CompletionRequests == {i \in DOMAIN calls : calls[i].req # "language"}

\* what the pipeline returns when the completion request is answered with
\* a status other than 200
NonOkResult(resp) ==
  CASE task = "bill" ->
         [success |-> FALSE,
          error |-> <<"Failed to analyze bill: ", "API Error: ",
                      ToString(resp.status), " - ">> \o resp.text]
    [] task = "cv" ->
         [success |-> TRUE, files_processed |-> 1,
          analysis |-> <<"API Error: ", ToString(resp.status), " - ">> \o resp.text]
    [] task = "video" -> [error |-> <<"Failed to analyze content">>]
    [] task = "chat" ->
         [message |-> <<"Error: API request failed with status ", ToString(resp.status),
                        ". Details: ">> \o resp.text]

C23_NoRetryOutsideContractFinancial ==
  (task \notin RetryTasks) =>
    /\ sleeps = <<>>
    /\ pc # "BACKOFF"
    /\ Cardinality(CompletionRequests) <= 1
    /\ (CompletionRequests # {} /\ last.kind = "http" /\ last.status # 200) =>
         /\ Done
         /\ result = NonOkResult(last)

C23_Witness ==
  /\ task = "bill"
  /\ Done
  /\ StatusesAre(<<200, 529>>)
  /\ calls[2].req = "analysis"
  /\ sleeps = <<>>
  /\ result = NonOkResult(last)

\* ------------------------------------------------------------------------
\* C24: bill pipeline: the analysis prompt and the fallback message are in
\* Spanish exactly when the detected language, in lower case, is 'spanish'
\* or 'español', so the two always agree; and the result's language field
\* is the detected language, on the normalized and on the fallback path.
\* ------------------------------------------------------------------------
IsSpanish(lang) == Lower(lang) \in {<<"spanish">>, <<"español">>}

\* the language the fallback's messages are written in
FallbackLanguage(data) ==
  IF data.summary = JStr("No se pudieron extraer elementos específicos de la factura.")
    THEN "Spanish" ELSE "English"

C24_PromptAndFallbackAgree ==
  (task = "bill") =>
    /\ (pc = "AWAITING_COMPLETION") =>
         analysis_prompt = (IF IsSpanish(language) THEN "Spanish" ELSE "English")
    /\ (Done /\ outcome = "FALLBACK") =>
         /\ FallbackLanguage(result.data) = analysis_prompt
         /\ FallbackLanguage(result.data) = "Spanish" <=> IsSpanish(language)
         /\ result.data.currency = JStr(IF IsSpanish(language) THEN "EUR" ELSE "USD")
         /\ result.data.language = language
    /\ (Done /\ outcome = "NORMALIZED") => result.data.language = language

C24_Witness ==
  /\ task = "bill"
  /\ Done
  /\ outcome = "FALLBACK"
  /\ language = <<"SPANISH">>
  /\ analysis_prompt = "Spanish"
  /\ FallbackLanguage(result.data) = "Spanish"
  /\ result.data.language = <<"SPANISH">>

\* ------------------------------------------------------------------------
\* C25: video pipeline: download, then transcription, then the completion
\* request. Transcription runs only on a downloaded file and the request
\* is issued only for a transcribed text; a failed download ends the
\* pipeline with the download error, a failed transcription with the
\* transcription error, a failed analysis with the analysis error.
\* ------------------------------------------------------------------------
NoAudio == audio_path \in {"unset", "None"}

NoTranscription == transcription \in {"unset", "None", ""}

C25_VideoStagesInOrder ==
  (task = "video") =>
    /\ (transcription # "unset") => ~NoAudio
    /\ (calls # <<>>) => (~NoAudio /\ ~NoTranscription)
    /\ (pc = "TRANSCRIBING") => (~NoAudio /\ transcription = "unset" /\ calls = <<>>)
    /\ (pc = "AWAITING_COMPLETION") => (~NoTranscription /\ calls = <<>>)
    /\ (audio_path = "None") =>
         /\ Done
         /\ outcome = "DOWNLOAD_FAILED"
         /\ result = [error |-> <<"Failed to download video audio">>]
         /\ transcription = "unset"
         /\ calls = <<>>
    /\ (transcription \in {"None", ""}) =>
         /\ Done
         /\ outcome = "TRANSCRIPTION_FAILED"
         /\ result = [error |-> <<"Failed to transcribe video">>]
         /\ calls = <<>>
    /\ (calls # <<>>) =>
         /\ Done
         /\ Len(calls) = 1
         /\ Falsy(VideoAnalysis(last)) =>
              /\ outcome = "ANALYSIS_FAILED"
              /\ result = [error |-> <<"Failed to analyze content">>]
         /\ ~Falsy(VideoAnalysis(last)) => IsSuccess(result)

C25_Witness ==
  /\ task = "video"
  /\ Done
  /\ audio_path = "/tmp/x/video.wav"
  /\ transcription = "None"
  /\ outcome = "TRANSCRIPTION_FAILED"
  /\ calls = <<>>

\* ------------------------------------------------------------------------
\* C26: contract, financial and bill pipelines: for a reply text with two
\* separate JSON objects the extracted span runs from the first object
\* through the last, json.loads rejects it, and the result is the fallback
\* with the whole text as raw_response; the first object is not returned.
\* ------------------------------------------------------------------------
ObjectsAt(text) == {i \in 1..Len(text) : text[i].t = "json"}

FirstObjectAt(text) == CHOOSE i \in ObjectsAt(text) : \A j \in ObjectsAt(text) : i <= j

LastObjectAt(text) == CHOOSE i \in ObjectsAt(text) : \A j \in ObjectsAt(text) : i >= j

TwoSeparateObjects(text) ==
  /\ Cardinality(ObjectsAt(text)) = 2
  /\ \A i \in 1..Len(text) : text[i].t \in {"json", "prose"}

C26_TwoObjectsFallBack ==
  (task \in ProcessorTasks /\ AnalysisAnswered /\ Is200(last)
     /\ TwoSeparateObjects(ReplyText(last))) =>
    /\ JsonMatch(ReplyText(last)) =
         SubSeq(ReplyText(last), FirstObjectAt(ReplyText(last)), LastObjectAt(ReplyText(last)))
    /\ ~JsonLoads(JsonMatch(ReplyText(last))).ok
    /\ Done
    /\ outcome = "FALLBACK"
    /\ IsSuccess(result)
    /\ result.data = Fallback(task, ReplyText(last), language)
    /\ result.data.raw_response = ReplyText(last)
    /\ Validate(task, ReplyText(last)[FirstObjectAt(ReplyText(last))].o, language).ok =>
         result.data #
           Validate(task, ReplyText(last)[FirstObjectAt(ReplyText(last))].o, language).v

C26_Witness ==
  /\ task = "contract"
  /\ Done
  /\ AnalysisAnswered
  /\ Is200(last)
  /\ ReplyText(last) = <<ObjText(TwoObjects[1]), Prose("and"), ObjText(TwoObjects[2])>>
  /\ outcome = "FALLBACK"
  /\ result.data.contract_title = JStr("Document Analysis")

\* ------------------------------------------------------------------------
\* C27: contract and financial pipelines: whatever mix of 529 answers,
\* other failures and exceptions the requests meet, _analyze_with_claude
\* issues at most three requests and sleeps at most 6 time units in all,
\* every state before the end has a next step, and the function ends by
\* returning a mapping or by raising: the loop is never left with nothing
\* returned.
\* ------------------------------------------------------------------------
SleepTotal ==
  LET RECURSIVE total(_)
      total(i) == IF i > Len(sleeps) THEN 0 ELSE sleeps[i] + total(i + 1)
  IN total(1)

C27_RetryLoopTerminates ==
  (task \in RetryTasks) =>
    /\ Len(calls) <= 3
    /\ Len(sleeps) <= 2
    /\ SleepTotal <= 6
    /\ outcome # "NOTHING_RETURNED"
    /\ (pc = "BACKOFF") => (attempt < 2 /\ Len(calls) = attempt + 1)
    /\ (pc = "AWAITING_COMPLETION") => (attempt <= 2 /\ Len(calls) = attempt)
    /\ Done \/ ENABLED Next
    /\ (Done /\ calls # <<>>) =>
         /\ outcome \in {"NORMALIZED", "FALLBACK", "API_FAILED"}
         /\ (outcome = "API_FAILED") =>
              /\ result.success = FALSE
              /\ result.error[1] = FailurePrefix(task)
         /\ (outcome # "API_FAILED") =>
              /\ result.success = TRUE
              /\ DOMAIN result.data # {}

C27_Witness ==
  /\ task \in RetryTasks
  /\ Done
  /\ StatusesAre(<<529, 0, 529>>)
  /\ Contains(Lower(calls[2].raised), "overloaded")
  /\ sleeps = <<2, 4>>
  /\ SleepTotal = 6
  /\ outcome = "API_FAILED"

\* ------------------------------------------------------------------------
\* C28: cap N = MAX_CONVERSATION_HISTORY >= 1: through any sequence of
\* create_conversation, add_message and delete_conversation calls made one
\* after the other, every stored history has at most N+1 turns after each
\* call.
\* ------------------------------------------------------------------------
C28_HistoryBounded ==
  Quiet => \A u \in DOMAIN conversations : Len(History(u)) <= max_history + 1

C28_Witness ==
  /\ Quiet
  /\ "u1" \in DOMAIN conversations
  /\ ledger["u1"].created = <<>>
  /\ ledger["u1"].trimmed
  /\ Len(ledger["u1"].appended) = max_history + 3
  /\ Len(History("u1")) = max_history + 1

\* ------------------------------------------------------------------------
\* C29: bill normalizer: the items of the result are the reply's items
\* whose amount float() accepts, in the reply's order, the others being
\* skipped; and a total that float() rejects is replaced by the sum of the
\* amounts of the items kept.
\* ------------------------------------------------------------------------
\* float() accepts the amount of the reply's item
Convertible(item) == PyFloat(PyGet(item, "amount", JFloat(0)).v).ok

AmountOf(item) == PyFloat(PyGet(item, "amount", JFloat(0)).v).v

\* the reply's items that are kept
KeptItems(obj) == SelectSeq(obj.o["items"].l, Convertible)

SumOfKept(kept) ==
  LET RECURSIVE sum(_)
      sum(i) == IF i > Len(kept) THEN 0 ELSE AmountOf(kept[i]) + sum(i + 1)
  IN sum(1)

HasItemList(obj) == "items" \in DOMAIN obj.o /\ obj.o["items"].k = "list"

C29_BadItemsSkipped ==
  (task = "bill" /\ Done /\ AnalysisAnswered /\ ReplyParses(last)
     /\ outcome = "NORMALIZED" /\ HasItemList(ReplyObject(last))) =>
    /\ Len(result.data.items) = Len(KeptItems(ReplyObject(last)))
    /\ \A i \in 1..Len(result.data.items) :
         /\ result.data.items[i].name =
              PyStr(PyGet(KeptItems(ReplyObject(last))[i], "name", JStr("Unknown")).v)
         /\ result.data.items[i].amount = AmountOf(KeptItems(ReplyObject(last))[i])
    /\ ("total" \in DOMAIN ReplyObject(last).o /\ ~TotalNumeric(ReplyObject(last))) =>
         result.data.total = SumOfKept(KeptItems(ReplyObject(last)))

C29_Witness ==
  /\ task = "bill"
  /\ Done
  /\ outcome = "NORMALIZED"
  /\ AnalysisAnswered
  /\ ReplyParses(last)
  /\ HasItemList(ReplyObject(last))
  /\ Len(ReplyObject(last).o["items"].l) = 3
  /\ ~Convertible(ReplyObject(last).o["items"].l[2])
  /\ Len(result.data.items) = 2
  /\ result.data.items[1].name = JStr("water")
  /\ result.data.items[2].name = JStr("power")
  /\ result.data.total = 1450

\* ------------------------------------------------------------------------
\* C30: bill pipeline: when the language detection request is answered
\* with a status other than 200 (529 included), the detected language is
\* 'English', the analysis request is still issued, and the result is what
\* the analysis request's answer alone gives; a status other than 200 of
\* the analysis request is what gives the error result.
\* ------------------------------------------------------------------------
LanguageRefused ==
  /\ task = "bill"
  /\ calls # <<>>
  /\ calls[1].req = "language"
  /\ calls[1].status \notin {0, 200}

C30_LanguageFailureNotFatal ==
  LanguageRefused =>
    /\ language = <<"English">>
    /\ analysis_prompt = "English"
    /\ Len(calls) <= 2
    /\ (Len(calls) = 1) =>
         /\ pc = "AWAITING_COMPLETION"
         /\ outcome = "NONE"
         /\ result = <<>>
         /\ ENABLED (\E resp \in Responses(task) :
                       CompleteBill(resp) /\ UNCHANGED <<storeVars, pairVars>>)
    /\ (Len(calls) = 2) =>
         /\ calls[2].req = "analysis"
         /\ Done
         /\ result = ProcessResult(BillExcept(HandleReply("bill", last, <<"English">>)))
         /\ (last.kind = "http" /\ last.status # 200) =>
              result = [success |-> FALSE,
                        error |-> <<"Failed to analyze bill: ">> \o ApiErrorMessage(last)]
         /\ (ReplyMisses(last)) =>
              (IsSuccess(result) /\ outcome = "FALLBACK")

C30_Witness ==
  /\ LanguageRefused
  /\ StatusesAre(<<529, 200>>)
  /\ calls[2].req = "analysis"
  /\ Done
  /\ outcome = "NORMALIZED"
  /\ IsSuccess(result)
  /\ result.data.language = <<"English">>

====
